---- MODULE Spec2Model ----
(***************************************************************************)
(* demogif: the checkpoint-driven recording loop (run), the action         *)
(* executor (ExecuteBatch and the per-action animations) and the hold      *)
(* frames, as a state machine.                                             *)
(*                                                                         *)
(* A screenshot is identified by the ordinal of the captureFrame call that *)
(* took it (the variable shots counts those calls); NilImage is the nil    *)
(* image.Image a failed capture leaves behind.  The planning collaborator  *)
(* is an input of the run: its whole behaviour (the reply to the n-th      *)
(* call) is drawn from Scripts in Init.  The browser decides, per action,  *)
(* whether the selector resolves, which screenshots fail and whether a     *)
(* Must* driver call panics.                                               *)
(***************************************************************************)
EXTENDS Integers, Sequences, FiniteSets, TLC

VARIABLES
    pc,               \* position in run / ExecuteBatch
    script,           \* the planner's behaviour in this run
    planCalls,        \* planner calls made so far (GenerateActions + ContinueActions)
    fps,              \* --fps
    actions,          \* run: actions
    iteration,        \* run: iteration
    allFrames,        \* run: allFrames
    allCursors,       \* run: allCursors
    completedActions, \* run: completedActions
    lastCursor,       \* run: lastCursor (<<>> is nil, <<c>> is &c)
    err,              \* the error run returns ("" is nil)
    warned,           \* the max-iterations warning was printed
    pageOpen,         \* Browser.page not yet closed
    browserOpen,      \* Browser.browser not yet closed
    output,           \* the file at the output path (<<>> none, <<g>> the encoded GIF g)
    fileSize,         \* run: fileSize (<<>> before Generate returned)
    idx,              \* ExecuteBatch: i
    frameData,        \* ExecuteBatch: frameData
    currentCursor,    \* ExecuteBatch: currentCursor
    result,           \* ExecuteBatch: result
    interpolated,     \* ApplyCursor: interpolated
    args,             \* the arguments of a function called on its own
    ret,              \* what that function has computed so far
    shots,            \* screenshots requested from the page so far
    failedShots,      \* the screenshots that failed so far
    unresolved,       \* selectors that did not resolve so far
    events,           \* history: the collaborator calls of the run, in order
    attempts,         \* history: the actions ExecuteBatch attempted, in order
    batches           \* history: the action list and outcome of every ExecuteBatch call

vars == <<pc, script, planCalls, fps, actions, iteration, allFrames, allCursors,
          completedActions, lastCursor, err, warned, pageOpen, browserOpen, output,
          fileSize, idx, frameData, currentCursor, result, interpolated, args, ret,
          shots, failedShots,
          unresolved, events, attempts, batches>>

runVars == <<script, planCalls, actions, iteration, allFrames, allCursors,
             completedActions, lastCursor, err, warned, pageOpen, browserOpen, output,
             fileSize>>

batchVars == <<idx, frameData, currentCursor, result>>

----------------------------------------------------------------------------
(* Bounds of the model *)

\* screenshots that may fail in one run
MaxCaptureFail == 1

\* the highest frame rate gifgen.Generate is called with
MaxFPS == 8

\* line endpoints lie within this distance of the origin, or at an end of the int range
MaxCoord == 3

\* selectors that may fail to resolve in one run
MaxUnresolved == 1

(* Program constants *)

\* maxIterations := 20
maxIterations == 20

\* --delay default
BaseDelay == 800

\* scrollSteps := 10
scrollSteps == 10

\* frameEvery := 2
frameEvery == 2

\* numFrames > 60
MaxWaitFrames == 60

\* frame rates of the modelled runs
FPSValues == {2}

\* the most frames ApplyCursor is given on its own
MaxFrames == 4

\* the most cursor positions ApplyCursor is given on its own
MaxWaypoints == 3

\* the most frames ApplyCursor is given with one cursor sample per frame
MaxSamples == 23

\* --no-cursor default
noCursor == FALSE

----------------------------------------------------------------------------
(* Data *)

Min(a, b) == IF a <= b THEN a ELSE b

\* Go's int(float64) on an exact quotient a/b, b > 0: truncation toward zero
TruncDiv(a, b) == IF a >= 0 THEN a \div b ELSE -((-a) \div b)

CursorPosition(x, y, state, click) == [X |-> x, Y |-> y, State |-> state, Click |-> click]

DefaultCursor == CursorPosition(640, 360, "default", FALSE)

\* the image decoded from screenshot number n, with nothing drawn on it
Screenshot(n) == [Shot |-> n, Drawn |-> <<>>]

\* the nil image.Image captureFrame returns with an error
NilImage == [Shot |-> 0, Drawn |-> <<>>]

FrameData(image, cursor) == [Image |-> image, Cursor |-> cursor]

Action(type, selector, text, duration, checkpoint) ==
    [Type |-> type, Selector |-> selector, Text |-> text, X |-> 0, Y |-> 300,
     URL |-> "", Duration |-> duration, Checkpoint |-> checkpoint]

\* getElementCenter of the element a selector resolves to
ElementCenter(selector) ==
    CASE selector = "#a" -> [x |-> 100, y |-> 200]
      [] selector = "#b" -> [x |-> 910, y |-> 40]
      [] OTHER -> [x |-> 640, y |-> 360]

----------------------------------------------------------------------------
(* executor.go: the per-action animations.  Each returns the screenshots   *)
(* it asks for, in order, as slots: the cursor recorded with the frame and *)
(* whether the frame is appended even when the capture failed.             *)

Slot(cursor, keep) == [Cursor |-> cursor, Keep |-> keep]

\* frameInterval in milliseconds
FrameIntervalMs(f) == 1000 \div f

\* easeInOutQuad(i/m) as the fraction num/den
EaseNum(i, m) == IF 2 * i < m THEN 2 * i * i ELSE m * m - 2 * (m - i) * (m - i)

EaseDen(m) == m * m

\* int(float64(from) + easeInOutQuad(i/m)*(float64(to)-float64(from))): the
\* float64 value differs from the exact one by far less than 1/m^2, so its
\* integer part is that of the exact value whenever the exact value is no
\* integer; it is exact at the ends, i = 0 and i = m (InterpOutcomes has the
\* other case; the element centres above never meet it at the step counts
\* of this model)
Interp(from, to, i, m) ==
    TruncDiv(from * EaseDen(m) + EaseNum(i, m) * (to - from), EaseDen(m))

\* movementFrames of click and type
MovementFrames(f) == IF f \div 2 < 5 THEN 5 ELSE f \div 2

\* movementFrames of hover
HoverMovementFrames(f) == f \div 2

\* int(x) of a float64 x that is NaN: Go leaves the result to the
\* implementation; it is the most negative int on amd64 (here the most
\* negative integer of the model stands for it) and 0 on arm64
IntOfNaN == {0, -2147483647}

\* clickFrames
ClickFrames(f) == IF f \div 3 < 3 THEN 3 ELSE f \div 3

\* mutant: the movement loop starts at i = 1
MovementSlots_FromStepOne(cur, x, y, m, state) ==
    [k \in 1..m |->
        Slot(CursorPosition(Interp(cur.X, x, k, m), Interp(cur.Y, y, k, m),
                            state, FALSE), FALSE)]

\* the movement loop: i = 0..m, one screenshot per step
MovementSlots(cur, x, y, m, state) ==
    [k \in 1..(m + 1) |->
        Slot(CursorPosition(Interp(cur.X, x, k - 1, m), Interp(cur.Y, y, k - 1, m),
                            state, FALSE), FALSE)]

\* the movement loop of hover: without a minimum, movementFrames is 0 below
\* 2 frames per second, and the one step i = 0 has t = 0/0, which is NaN and
\* stays NaN through easeInOutQuad and the interpolation
HoverMovementSlots(cur, x, y, m, nan) ==
    IF m = 0 THEN <<Slot(CursorPosition(nan, nan, "pointer", FALSE), FALSE)>>
    ELSE MovementSlots(cur, x, y, m, "pointer")

\* n screenshots with the same cursor
RepeatSlots(n, cursor) == [k \in 1..n |-> Slot(cursor, FALSE)]

\* mutant: the number of frames has no upper limit
WaitFrameCount_Uncapped(waitMs, f) ==
    LET n == waitMs \div FrameIntervalMs(f)
    IN  IF n < 1 THEN 1 ELSE n

\* captureWaitFrames: the number of frames
WaitFrameCount(waitMs, f) ==
    LET n == waitMs \div FrameIntervalMs(f)
    IN  IF n < 1 THEN 1 ELSE IF n > MaxWaitFrames THEN MaxWaitFrames ELSE n

captureWaitFrames(cursor, waitMs, f) == RepeatSlots(WaitFrameCount(waitMs, f), cursor)

RECURSIVE SumTo(_, _)
\* the sum of the first n entries of a sequence of numbers
SumTo(s, n) == IF n = 0 THEN 0 ELSE s[n] + SumTo(s, n - 1)

\* text is the sequence of the byte lengths of its characters; range yields
\* the byte offset of each character and len(text) is the byte length
\* the characters (counted from 1) after which the typing loop asks for a
\* screenshot: i%frameEvery == 0 || i == len(text)-1, i the byte offset
CapturedChars(text) ==
    LET captured(k) == \/ SumTo(text, k - 1) % frameEvery = 0
                       \/ SumTo(text, k - 1) = SumTo(text, Len(text)) - 1
    IN  SelectSeq([k \in 1..Len(text) |-> k], captured)

TypingSlots(text, cursor) ==
    [j \in 1..Len(CapturedChars(text)) |-> Slot(cursor, FALSE)]

Outcome(slots, cursor, failed) == [slots |-> slots, cursor |-> cursor, err |-> failed]

\* mutant: a click on a missing element returns a nil error
executeClickAnimated_NoError(action, cur, f, resolved) ==
    IF ~resolved THEN Outcome(<<>>, cur, FALSE)
    ELSE LET c == ElementCenter(action.Selector)
         IN  Outcome(MovementSlots(cur, c.x, c.y, MovementFrames(f), "pointer")
                       \o RepeatSlots(ClickFrames(f),
                                      CursorPosition(c.x, c.y, "pointer", TRUE)),
                     CursorPosition(c.x, c.y, "pointer", FALSE), FALSE)

\* mutant: the cursor a click returns still has the click flag
executeClickAnimated_KeepsClick(action, cur, f, resolved) ==
    IF ~resolved THEN Outcome(<<>>, cur, TRUE)
    ELSE LET c == ElementCenter(action.Selector)
         IN  Outcome(MovementSlots(cur, c.x, c.y, MovementFrames(f), "pointer")
                       \o RepeatSlots(ClickFrames(f),
                                      CursorPosition(c.x, c.y, "pointer", TRUE)),
                     CursorPosition(c.x, c.y, "pointer", TRUE), FALSE)

executeClickAnimated(action, cur, f, resolved) ==
    IF ~resolved THEN Outcome(<<>>, cur, TRUE)
    ELSE LET c == ElementCenter(action.Selector)
         IN  Outcome(MovementSlots(cur, c.x, c.y, MovementFrames(f), "pointer")
                       \o RepeatSlots(ClickFrames(f),
                                      CursorPosition(c.x, c.y, "pointer", TRUE)),
                     CursorPosition(c.x, c.y, "pointer", FALSE), FALSE)

executeTypeAnimated(action, cur, f, resolved) ==
    IF ~resolved THEN Outcome(<<>>, cur, TRUE)
    ELSE LET c == ElementCenter(action.Selector)
             at == CursorPosition(c.x, c.y, "text", FALSE)
         IN  Outcome(MovementSlots(cur, c.x, c.y, MovementFrames(f), "text")
                       \o <<Slot(at, TRUE)>>
                       \o TypingSlots(action.Text, at)
                       \o RepeatSlots(f \div 4, at),
                     at, FALSE)

executeScrollAnimated(action, cur, f) ==
    Outcome(RepeatSlots(scrollSteps, cur), cur, FALSE)

executeHoverAnimated(action, cur, f, resolved, nan) ==
    IF ~resolved THEN Outcome(<<>>, cur, TRUE)
    ELSE LET c == ElementCenter(action.Selector)
             at == CursorPosition(c.x, c.y, "pointer", FALSE)
         IN  Outcome(HoverMovementSlots(cur, c.x, c.y, HoverMovementFrames(f), nan)
                       \o RepeatSlots(f \div 4, at),
                     at, FALSE)

\* the actions that look their selector up
UsesSelector(action) == action.Type \in {"click", "type", "hover"}

\* nan is what int(NaN) yields on the machine the program runs on
executeActionAnimated(action, cur, f, resolved, nan) ==
    CASE action.Type = "click"    -> executeClickAnimated(action, cur, f, resolved)
      [] action.Type = "type"     -> executeTypeAnimated(action, cur, f, resolved)
      [] action.Type = "scroll"   -> executeScrollAnimated(action, cur, f)
      [] action.Type = "hover"    -> executeHoverAnimated(action, cur, f, resolved, nan)
      [] action.Type = "wait"     -> Outcome(captureWaitFrames(cur, action.Duration, f), cur, FALSE)
      [] action.Type = "navigate" -> Outcome(<<Slot(cur, TRUE)>>, cur, FALSE)
      [] OTHER                    -> Outcome(<<>>, cur, TRUE)

\* mutant: the post-wait is the base delay whatever the action asks for
WaitTime_BaseOnly(action) == BaseDelay

\* waitTime of the post-action wait
WaitTime(action) == IF action.Duration = 0 THEN BaseDelay ELSE action.Duration

\* captureFrame on every slot: slot k is screenshot number base + k; a failed
\* screenshot is dropped, or kept as a nil image where the caller ignores err
Capture(slots, failing, base) ==
    LET taken == SelectSeq([k \in 1..Len(slots) |-> k],
                           LAMBDA k : k \notin failing \/ slots[k].Keep)
    IN  [j \in 1..Len(taken) |->
            FrameData(IF taken[j] \in failing THEN NilImage ELSE Screenshot(base + taken[j]),
                      slots[taken[j]].Cursor)]

\* the sets of at most b failing slots among n
RECURSIVE FailSets(_, _)
FailSets(n, b) ==
    IF b <= 0 THEN {{}}
    ELSE FailSets(n, b - 1) \cup {S \cup {k} : S \in FailSets(n, b - 1), k \in 1..n}

----------------------------------------------------------------------------
(* The planning collaborator: GenerateActions is call 0, the n-th          *)
(* ContinueActions is call n.  A script fixes the reply to every call.     *)

Click(selector, checkpoint) == Action("click", selector, <<>>, 0, checkpoint)

Hover(selector, checkpoint) == Action("hover", selector, <<>>, 0, checkpoint)

Type(selector, text, checkpoint) == Action("type", selector, text, 0, checkpoint)

Wait(duration, checkpoint) == Action("wait", "", <<>>, duration, checkpoint)

Navigate(checkpoint) == Action("navigate", "", <<>>, 0, checkpoint)

Scroll(checkpoint) == Action("scroll", "", <<>>, 0, checkpoint)

Replied(list) == [fail |-> FALSE, actions |-> list]

PlannerError == [fail |-> TRUE, actions |-> <<>>]

Script(replies, forever) == [replies |-> replies, forever |-> forever]

Rep(n, x) == [k \in 1..n |-> x]

Reply(s, n) == IF n < Len(s.replies) THEN s.replies[n + 1] ELSE s.forever

ListA == <<Click("#a", FALSE), Type("#b", <<1, 1, 1>>, FALSE)>>

ListB == <<Click("#a", FALSE), Hover("#b", FALSE), Click("#b", TRUE),
           Type("#a", <<1, 2>>, FALSE), Wait(1000, FALSE)>>

ListClickCp == <<Click("#a", TRUE)>>

ListNavCp == <<Navigate(TRUE)>>

ListWaitCp == <<Wait(500, TRUE)>>

ListWait == <<Wait(1000, FALSE)>>

ListTwoCp == <<Click("#a", TRUE), Click("#b", TRUE), Wait(0, FALSE)>>

\* "press" is no action type of the executor
ListUnknown == <<Action("press", "#a", <<>>, 0, TRUE), Scroll(FALSE),
                 Hover("#b", TRUE), Wait(500, FALSE)>>

\* a list whose only action is skipped
ListPress == <<Action("press", "#b", <<>>, 0, TRUE)>>

Scripts ==
    { Script(<<Replied(ListA)>>, Replied(<<>>)),
      Script(<<Replied(ListB), Replied(ListWait)>>, Replied(<<>>)),
      Script(<<Replied(ListClickCp), Replied(ListTwoCp), Replied(ListPress)>>,
             Replied(<<>>)),
      Script(<<Replied(ListTwoCp)>>, Replied(ListWait)),
      Script(<<Replied(ListUnknown), Replied(ListNavCp)>>, Replied(<<>>)),
      Script(<<>>, Replied(ListNavCp)),
      Script(<<>>, Replied(<<>>)),
      Script(<<>>, PlannerError),
      Script(<<Replied(ListNavCp), Replied(ListWaitCp)>>, PlannerError),
      Script(Rep(maxIterations - 1, Replied(ListWaitCp)) \o <<Replied(ListWait)>>,
             Replied(<<>>)),
      Script(Rep(maxIterations, Replied(ListWaitCp)), Replied(<<>>)) }

----------------------------------------------------------------------------
(* run *)

\* mutant: CheckpointIndex is left at Go's zero value
NoResult_ZeroIndex ==
    [Frames |-> <<>>, CursorPositions |-> <<>>, LastCursor |-> DefaultCursor,
     HitCheckpoint |-> FALSE, CheckpointIndex |-> 0]

NoResult ==
    [Frames |-> <<>>, CursorPositions |-> <<>>, LastCursor |-> DefaultCursor,
     HitCheckpoint |-> FALSE, CheckpointIndex |-> -1]

Init ==
    /\ pc = "crawl"
    /\ script \in Scripts
    /\ planCalls = 0
    /\ fps \in FPSValues
    /\ actions = <<>>
    /\ iteration = 0
    /\ allFrames = <<>>
    /\ allCursors = <<>>
    /\ completedActions = <<>>
    /\ lastCursor = <<>>
    /\ err = ""
    /\ warned = FALSE
    /\ pageOpen = FALSE
    /\ browserOpen = FALSE
    /\ output = <<>>
    /\ fileSize = <<>>
    /\ idx = 0
    /\ frameData = <<>>
    /\ currentCursor = DefaultCursor
    /\ result = NoResult
    /\ interpolated = <<>>
    /\ args = <<>>
    /\ ret = <<>>
    /\ shots = 0
    /\ failedShots = {}
    /\ unresolved = 0
    /\ events = <<>>
    /\ attempts = <<>>
    /\ batches = <<>>

\* mutant: the error is recorded but run goes on to the final steps
ReturnError_GoesOn(message) ==
    /\ pc' = "holdFinal"
    /\ err' = message

\* return fmt.Errorf(...): run returns the error at once
ReturnError(message) ==
    /\ pc' = "failed"
    /\ err' = message

\* crawler.Crawl: it launches the browser, opens the page and analyses it; it
\* returns a nil error always and panics when a Must* driver call fails
Crawl ==
    /\ pc = "crawl"
    /\ events' = Append(events, "crawl")
    /\ \/ /\ pc' = "provider"
          /\ browserOpen' = TRUE
          /\ pageOpen' = TRUE
       \/ /\ pc' = "panic"
          /\ browserOpen' \in BOOLEAN
          /\ pageOpen' \in BOOLEAN
          /\ pageOpen' => browserOpen'
    /\ UNCHANGED <<script, planCalls, fps, args, ret, interpolated, actions, iteration, allFrames,
                   allCursors, completedActions, lastCursor, err, warned, output, fileSize,
                   batchVars, shots, failedShots, unresolved, attempts, batches>>

\* ai.NewProvider
NewProvider ==
    /\ pc = "provider"
    /\ events' = Append(events, "provider")
    /\ \/ /\ pc' = "plan"
          /\ err' = err
       \/ ReturnError("AI provider init failed")
    /\ UNCHANGED <<script, planCalls, fps, args, ret, interpolated, actions, iteration, allFrames, allCursors,
                   completedActions, lastCursor, warned, pageOpen, browserOpen, output, fileSize,
                   batchVars, shots, failedShots, unresolved, attempts, batches>>

\* aiProvider.GenerateActions and its error check
GenerateActions ==
    /\ pc = "plan"
    /\ events' = Append(events, "plan")
    /\ planCalls' = planCalls + 1
    /\ LET reply == Reply(script, planCalls)
       IN  IF reply.fail
           THEN /\ ReturnError("action generation failed")
                /\ actions' = actions
           ELSE /\ actions' = reply.actions
                /\ pc' = "holdInit"
                /\ err' = err
    /\ UNCHANGED <<script, fps, args, ret, interpolated, iteration, allFrames, allCursors, completedActions,
                   lastCursor, warned, pageOpen, browserOpen, output, fileSize,
                   batchVars, shots, failedShots, unresolved, attempts, batches>>

\* mutant: the hold frames are recorded at the default position always
captureHoldFrames_AtDefault(f, cursor, failing, base) ==
    Capture(RepeatSlots(f, DefaultCursor), failing, base)

\* captureHoldFrames: targetFPS screenshots at *cursor, or at the default
\* position when cursor is nil; a failed screenshot or decode is skipped
captureHoldFrames(f, cursor, failing, base) ==
    Capture(RepeatSlots(f, IF cursor = <<>> THEN DefaultCursor ELSE cursor[1]),
            failing, base)

\* mutant: the new frames are put in front of the accumulated ones
appendAll_InFront(all, new) == new \o all

\* append(allFrames, frames...) and append(allCursors, cursors...)
appendAll(all, new) == all \o new

Images(frames) == [k \in 1..Len(frames) |-> frames[k].Image]

\* mutant: no cursor position is extracted for a frame without an image
Cursors_SkipNil(frames) ==
    LET withImage == SelectSeq(frames, LAMBDA fd : fd.Image # NilImage)
    IN  [k \in 1..Len(withImage) |-> withImage[k].Cursor]

Cursors(frames) == [k \in 1..Len(frames) |-> frames[k].Cursor]

\* the hold frames before the loop (nextPc = "loop") and after it
HoldFrames(at, nextPc) ==
    /\ pc = at
    /\ \E failing \in FailSets(fps, MaxCaptureFail - Cardinality(failedShots)) :
          LET held == captureHoldFrames(fps, lastCursor, failing, shots)
          IN  /\ allFrames' = appendAll(allFrames, Images(held))
              /\ allCursors' = appendAll(allCursors, Cursors(held))
              /\ failedShots' = failedShots \cup {shots + k : k \in failing}
    /\ shots' = shots + fps
    /\ pc' = nextPc
    /\ events' = Append(events, "hold")
    /\ UNCHANGED <<script, planCalls, fps, args, ret, interpolated, actions, iteration, completedActions,
                   lastCursor, err, warned, pageOpen, browserOpen, output, fileSize,
                   batchVars, unresolved, attempts, batches>>

InitialHold == HoldFrames("holdInit", "loop")

FinalHold == HoldFrames("holdFinal", "overlay")

\* mutant: the loop tests the bound with <= instead of <
LoopContinues_OffByOne(acts, it) == Len(acts) > 0 /\ it <= maxIterations

\* mutant: the loop does not test for an empty action list
LoopContinues_IgnoresEmpty(acts, it) == it < maxIterations

\* for len(actions) > 0 && iteration < maxIterations
LoopContinues(acts, it) == Len(acts) > 0 /\ it < maxIterations

\* mutant: the batch starts at the default position whatever it is given
StartCursor_AlwaysDefault(startCursor) == DefaultCursor

\* ExecuteBatch: currentCursor is *startCursor, or the default position when
\* startCursor is nil
StartCursor(startCursor) ==
    IF startCursor = <<>> THEN DefaultCursor ELSE startCursor[1]

\* the loop head is passed: iteration++ and ExecuteBatch is entered
EnterBatch ==
    /\ pc = "loop"
    /\ LoopContinues(actions, iteration)
    /\ iteration' = iteration + 1
    /\ idx' = 0
    /\ frameData' = <<>>
    /\ currentCursor' = StartCursor(lastCursor)
    /\ result' = NoResult
    /\ pc' = "batch"
    /\ events' = Append(events, "exec")
    /\ UNCHANGED <<script, planCalls, fps, args, ret, interpolated, actions, allFrames, allCursors,
                   completedActions, lastCursor, err, warned, pageOpen, browserOpen,
                   output, fileSize, shots, failedShots, unresolved, attempts, batches>>

\* if iteration >= maxIterations
WarnsMaxIterations(it) == it >= maxIterations

\* the loop ends
LeaveLoop ==
    /\ pc = "loop"
    /\ ~LoopContinues(actions, iteration)
    /\ warned' = WarnsMaxIterations(iteration)
    /\ pc' = "holdFinal"
    /\ UNCHANGED <<script, planCalls, fps, args, ret, interpolated, actions, iteration, allFrames, allCursors,
                   completedActions, lastCursor, err, pageOpen, browserOpen, output, fileSize,
                   batchVars, shots, failedShots, unresolved, events, attempts, batches>>

----------------------------------------------------------------------------
(* ExecuteBatch *)

\* mutant: the checkpoint test after the post-wait is missing
StopsBatch_Never(action) == FALSE

\* if action.Checkpoint { ...; break }
StopsBatch(action) == action.Checkpoint

\* mutant: the index reported is the one after the checkpoint action
CheckpointResult_NextIndex(res, i) ==
    [res EXCEPT !.HitCheckpoint = TRUE, !.CheckpointIndex = i + 1]

\* result.HitCheckpoint = true; result.CheckpointIndex = i
CheckpointResult(res, i) ==
    [res EXCEPT !.HitCheckpoint = TRUE, !.CheckpointIndex = i]

\* the frames one successful action adds: its animation, then its post-wait
\* at the cursor the animation returned
ActionSlots(action, out, f) ==
    out.slots \o captureWaitFrames(out.cursor, WaitTime(action), f)

\* the results int(NaN) can have in this action: a hover whose movement loop
\* has no steps converts a NaN, every other conversion is of a finite value
NaNOutcomes(action, f) ==
    IF action.Type = "hover" /\ HoverMovementFrames(f) = 0 THEN IntOfNaN ELSE {0}

\* one iteration of the loop over actions, for actions[idx]
BatchStep ==
    /\ pc = "batch"
    /\ idx < Len(actions)
    /\ LET action == actions[idx + 1]
       IN  \E resolved \in BOOLEAN, nan \in NaNOutcomes(action, fps) :
           /\ resolved \/ (UsesSelector(action) /\ unresolved < MaxUnresolved)
           /\ unresolved' = IF resolved THEN unresolved ELSE unresolved + 1
           /\ LET out == executeActionAnimated(action, currentCursor, fps, resolved, nan)
              IN  IF out.err
                  THEN \* continue
                       /\ idx' = idx + 1
                       /\ pc' = "batch"
                       /\ attempts' = Append(attempts,
                              [round |-> iteration, index |-> idx, resolved |-> resolved,
                               ok |-> FALSE, first |-> shots + 1, last |-> shots,
                               waitFrom |-> shots + 1,
                               action |-> action, cursor |-> currentCursor])
                       /\ UNCHANGED <<frameData, currentCursor, result, shots, failedShots>>
                  ELSE LET slots == ActionSlots(action, out, fps)
                       IN  \E failing \in FailSets(Len(slots), MaxCaptureFail - Cardinality(failedShots)) :
                           /\ frameData' = frameData \o Capture(slots, failing, shots)
                           /\ currentCursor' = out.cursor
                           /\ shots' = shots + Len(slots)
                           /\ failedShots' = failedShots \cup {shots + k : k \in failing}
                           /\ attempts' = Append(attempts,
                                  [round |-> iteration, index |-> idx, resolved |-> resolved,
                                   ok |-> TRUE, first |-> shots + 1, last |-> shots + Len(slots),
                                   waitFrom |-> shots + Len(out.slots) + 1,
                                   action |-> action, cursor |-> out.cursor])
                           /\ IF StopsBatch(action)
                              THEN /\ result' = CheckpointResult(result, idx)
                                   /\ idx' = idx
                                   /\ pc' = "batchExit"
                              ELSE /\ result' = result
                                   /\ idx' = idx + 1
                                   /\ pc' = "batch"
    /\ UNCHANGED <<runVars, fps, args, ret, interpolated, events, batches>>

\* page.MustNavigate / page.MustWaitLoad panic when the driver call fails
NavigatePanics ==
    /\ pc = "batch"
    /\ idx < Len(actions)
    /\ actions[idx + 1].Type = "navigate"
    /\ pc' = "panic"
    /\ attempts' = Append(attempts,
           [round |-> iteration, index |-> idx, resolved |-> TRUE, ok |-> FALSE,
            first |-> shots + 1, last |-> shots, waitFrom |-> shots + 1,
            action |-> actions[idx + 1], cursor |-> currentCursor])
    /\ UNCHANGED <<runVars, fps, args, ret, interpolated, batchVars, shots, failedShots, unresolved, events,
                   batches>>

\* after the loop: the images and positions are extracted and result returned
BatchReturn ==
    /\ \/ pc = "batchExit"
       \/ pc = "batch" /\ idx >= Len(actions)
    /\ result' = [result EXCEPT !.Frames = Images(frameData),
                                !.CursorPositions = Cursors(frameData),
                                !.LastCursor = currentCursor]
    /\ pc' = "accumulate"
    /\ batches' = Append(batches, [actions |-> actions, hit |-> result.HitCheckpoint,
                                   index |-> result.CheckpointIndex,
                                   frames |-> Len(Images(frameData)),
                                   cursors |-> Len(Cursors(frameData)),
                                   last |-> currentCursor])
    /\ UNCHANGED <<runVars, fps, args, ret, interpolated, idx, frameData, currentCursor, shots, failedShots,
                   unresolved, events, attempts>>

----------------------------------------------------------------------------
(* run, after ExecuteBatch returned *)

\* mutant: the whole list is logged although a checkpoint cut the batch short
ExecutedPrefix_WholeList(acts, res) == acts

\* mutant: the checkpoint action itself is left out of the log
ExecutedPrefix_BeforeCheckpoint(acts, res) ==
    IF res.HitCheckpoint THEN SubSeq(acts, 1, res.CheckpointIndex) ELSE acts

\* the actions appended to completedActions
ExecutedPrefix(acts, res) ==
    IF res.HitCheckpoint THEN SubSeq(acts, 1, res.CheckpointIndex + 1) ELSE acts

\* mutant: the else branch that sets actions = nil is missing
RemainingActions_Kept(acts, res) == acts

\* the list the loop goes on with: a checkpoint keeps it until the planner
\* replaces it, otherwise actions = nil
RemainingActions(acts, res) == IF res.HitCheckpoint THEN acts ELSE <<>>

\* mutant: the page is analysed again after every round
NeedsReplan_Always(res) == TRUE

\* if result.HitCheckpoint { ReCrawl; ContinueActions } else { actions = nil }
NeedsReplan(res) == res.HitCheckpoint

\* the result is appended to the run's sequences
Accumulate ==
    /\ pc = "accumulate"
    /\ allFrames' = appendAll(allFrames, result.Frames)
    /\ allCursors' = appendAll(allCursors, result.CursorPositions)
    /\ lastCursor' = <<result.LastCursor>>
    /\ completedActions' = completedActions \o ExecutedPrefix(actions, result)
    /\ actions' = RemainingActions(actions, result)
    /\ pc' = IF NeedsReplan(result) THEN "recrawl" ELSE "loop"
    /\ UNCHANGED <<script, planCalls, fps, args, ret, interpolated, iteration, err, warned, pageOpen,
                   browserOpen, output, fileSize, batchVars, shots, failedShots, unresolved,
                   events, attempts, batches>>

\* browser.ReCrawl: it returns a nil error always, and panics in MustWaitLoad
\* or MustEval when the driver call fails
ReCrawl ==
    /\ pc = "recrawl"
    /\ events' = Append(events, "recrawl")
    /\ pc' \in {"continue", "panic"}
    /\ UNCHANGED <<runVars, fps, args, ret, interpolated, batchVars, shots, failedShots, unresolved, attempts, batches>>

\* aiProvider.ContinueActions and its error check
ContinueActions ==
    /\ pc = "continue"
    /\ events' = Append(events, "continue")
    /\ planCalls' = planCalls + 1
    /\ LET reply == Reply(script, planCalls)
       IN  IF reply.fail
           THEN /\ ReturnError("continue generation failed")
                /\ actions' = actions
           ELSE /\ actions' = reply.actions
                /\ pc' = "loop"
                /\ err' = err
    /\ UNCHANGED <<script, fps, args, ret, interpolated, iteration, allFrames, allCursors, completedActions,
                   lastCursor, warned, pageOpen, browserOpen, output, fileSize,
                   batchVars, shots, failedShots, unresolved, attempts, batches>>

\* mutant: the frames are spread over the m - 1 gaps between the waypoints
WaypointIndex_Spread(i, m, frameCount) == (i * (m - 1)) \div frameCount

\* the <<frameCount, i>>, for len(positions) = frameCount <= 64, at which the
\* float64 product i/frameCount*frameCount is just below i, so that int() of
\* it is i - 1 (IEEE 754 double arithmetic, round to nearest even); for
\* len(positions) # frameCount there is none below frameCount = 11
FloatFloorShort ==
    { <<22, 15>>, <<23, 13>>, <<26, 15>>, <<39, 31>>, <<43, 23>>, <<43, 31>>,
      <<44, 15>>, <<44, 30>>, <<45, 13>>, <<45, 26>>, <<46, 13>>, <<46, 26>>,
      <<47, 3>>, <<47, 6>>, <<47, 12>>, <<47, 24>>, <<47, 31>>, <<49, 1>>,
      <<49, 2>>, <<49, 4>>, <<49, 8>>, <<49, 16>>, <<49, 27>>, <<49, 32>>,
      <<50, 29>>, <<51, 31>>, <<52, 15>>, <<52, 30>>, <<55, 7>>, <<55, 14>>,
      <<55, 15>>, <<55, 28>>, <<55, 29>>, <<55, 30>>, <<55, 31>>, <<58, 31>> }

\* posIdx := int(float64(i) / float64(frameCount) * float64(len(positions))),
\* clamped to len(positions) - 1
WaypointIndex(i, m, frameCount) ==
    IF m = frameCount /\ <<frameCount, i>> \in FloatFloorShort THEN i - 1
    ELSE IF (i * m) \div frameCount >= m THEN m - 1
    ELSE (i * m) \div frameCount

\* the values int(float64(from) + easeInOut(r/n)*(float64(to)-float64(from)))
\* can take: the integer part of the exact value, and also the integer below
\* it when the exact value is an integer that the float64 value can miss
InterpOutcomes(from, to, r, n) ==
    LET num == from * EaseDen(n) + EaseNum(r, n) * (to - from)
        v == TruncDiv(num, EaseDen(n))
    IN  IF r = 0 \/ r = n \/ from = to \/ num % EaseDen(n) # 0 \/ v <= 0
        THEN {v}
        ELSE {v, v - 1}

\* the positions interpolatePositions can give frame i (0-based): the waypoint
\* posIdx eased towards the next one by the fraction
\* i/frameCount*len(positions) - posIdx, which is r/frameCount, or the last
\* waypoint as it is
interpolatedAt(positions, frameCount, i) ==
    LET m == Len(positions)
        posIdx == WaypointIndex(i, m, frameCount)
        currentPos == positions[posIdx + 1]
    IN  IF posIdx < m - 1
        THEN LET nextPos == positions[posIdx + 2]
                 r == i * m - posIdx * frameCount
             IN  {CursorPosition(x, y, currentPos.State, currentPos.Click) :
                    x \in InterpOutcomes(currentPos.X, nextPos.X, r, frameCount),
                    y \in InterpOutcomes(currentPos.Y, nextPos.Y, r, frameCount)}
        ELSE {currentPos}

RECURSIVE SeqsOf(_, _)
\* the sequences of length k whose n-th entry is in choices[n]
SeqsOf(choices, k) ==
    IF k = 0 THEN {<<>>}
    ELSE {Append(seq, x) : seq \in SeqsOf(choices, k - 1), x \in choices[k]}

\* interpolatePositions: the sequences of frameCount positions it can return
interpolatePositions(positions, frameCount) ==
    SeqsOf([n \in 1..frameCount |-> interpolatedAt(positions, frameCount, n - 1)],
           frameCount)

\* mutant: the ripple is drawn before the test for the unset position
drawCursorOnFrame_RippleFirst(frame, pos) ==
    LET ripple == IF pos.Click THEN <<[sprite |-> "ripple", x |-> pos.X, y |-> pos.Y]>>
                               ELSE <<>>
    IN  IF pos.X = 0 /\ pos.Y = 0 THEN [frame EXCEPT !.Drawn = ripple]
        ELSE [frame EXCEPT !.Drawn = ripple \o <<[sprite |-> pos.State, x |-> pos.X, y |-> pos.Y]>>]

\* drawCursorOnFrame: a copy of the frame with the ripple (on a click) and the
\* cursor glyph drawn at pos, or with nothing drawn when pos is (0,0)
drawCursorOnFrame(frame, pos) ==
    IF pos.X = 0 /\ pos.Y = 0 THEN frame
    ELSE [frame EXCEPT !.Drawn =
            (IF pos.Click THEN <<[sprite |-> "ripple", x |-> pos.X, y |-> pos.Y]>>
                          ELSE <<>>)
            \o <<[sprite |-> pos.State, x |-> pos.X, y |-> pos.Y]>>]

\* the loop of ApplyCursor: result[i] = drawCursorOnFrame(frame, interpolated[i])
drawAll(frames, positions) ==
    [n \in 1..Len(frames) |-> drawCursorOnFrame(frames[n], positions[n])]

\* overlay.ApplyCursor: the frame sequences it can return, one frame out per
\* frame in, with a nil error always
ApplyCursor(frames, positions) ==
    IF Len(positions) = 0 THEN {frames}
    ELSE {drawAll(frames, ip) : ip \in interpolatePositions(positions, Len(frames))}

\* frame.Bounds() on a nil image is a nil dereference
OverlayPanics(frames, positions) ==
    Len(positions) # 0 /\ \E n \in 1..Len(frames) : frames[n] = NilImage

\* step 4 of run, skipped with --no-cursor
Overlay ==
    /\ pc = "overlay"
    /\ IF noCursor
       THEN /\ pc' = "gif"
            /\ UNCHANGED <<allFrames, interpolated, events>>
       ELSE /\ events' = Append(events, "overlay")
            /\ IF Len(allCursors) = 0
               THEN /\ pc' = "gif"
                    /\ UNCHANGED <<allFrames, interpolated>>
               ELSE /\ interpolated' \in interpolatePositions(allCursors, Len(allFrames))
                    /\ IF OverlayPanics(allFrames, allCursors)
                       THEN /\ pc' = "panic"
                            /\ allFrames' = allFrames
                       ELSE /\ pc' = "gif"
                            /\ allFrames' = drawAll(allFrames, interpolated')
                            /\ allFrames' \in ApplyCursor(allFrames, allCursors)
    /\ UNCHANGED <<script, planCalls, fps, args, ret, actions, iteration, allCursors,
                   completedActions, lastCursor, err, warned, pageOpen, browserOpen,
                   output, fileSize, idx, frameData, currentCursor, result, shots, failedShots,
                   unresolved, attempts, batches>>

\* delay, in hundredths of a second
Delay(f) == 100 \div f

\* the gif.GIF that Generate builds: one paletted image per frame, all with
\* the palette of the first frame, and one delay per frame
GIF(frames, f) ==
    [Image   |-> Len(frames),
     Delay   |-> [i \in 1..Len(frames) |-> Delay(f)],
     Palette |-> frames[1].Shot]

\* Generate returns before it builds anything
NothingToEncode(frames) == Len(frames) = 0

\* 100 / opts.FPS divides by zero; frames[0].Bounds() and resize.Resize
\* dereference a nil image
GeneratePanics(frames, f) ==
    f = 0 \/ \E n \in 1..Len(frames) : frames[n] = NilImage

\* step 5 of run, gifgen.Generate: no frames, no file and a size of 0; else
\* the file is created and encoded and its size read back, and each of the
\* three can fail (a file that was created stays, whole or in part)
Generate ==
    /\ pc = "gif"
    /\ events' = Append(events, "gif")
    /\ IF NothingToEncode(allFrames)
       THEN /\ pc' = "close"
            /\ fileSize' = <<"zero">>
            /\ UNCHANGED <<output, err>>
       ELSE IF GeneratePanics(allFrames, fps)
       THEN /\ pc' = "panic"
            /\ UNCHANGED <<output, fileSize, err>>
       ELSE \/ /\ output' = <<GIF(allFrames, fps)>>
               /\ fileSize' = <<"stat">>
               /\ pc' = "close"
               /\ err' = err
            \/ /\ ReturnError("GIF generation failed")
               /\ output' \in {output, <<GIF(allFrames, fps)>>}
               /\ fileSize' = <<"zero">>
    /\ UNCHANGED <<script, planCalls, fps, args, ret, interpolated, actions, iteration, allFrames, allCursors,
                   completedActions, lastCursor, warned, pageOpen, browserOpen,
                   batchVars, shots, failedShots, unresolved, attempts, batches>>

\* Browser.Close: the page, then the browser; run returns nil
Close ==
    /\ pc = "close"
    /\ pageOpen' = FALSE
    /\ browserOpen' = FALSE
    /\ events' = events \o <<"closePage", "closeBrowser">>
    /\ pc' = "done"
    /\ UNCHANGED <<script, planCalls, fps, args, ret, interpolated, actions, iteration, allFrames, allCursors,
                   completedActions, lastCursor, err, warned, output, fileSize,
                   batchVars, shots, failedShots, unresolved, attempts, batches>>

Next ==
    \/ Crawl
    \/ NewProvider
    \/ GenerateActions
    \/ InitialHold
    \/ EnterBatch
    \/ BatchStep
    \/ NavigatePanics
    \/ BatchReturn
    \/ Accumulate
    \/ ReCrawl
    \/ ContinueActions
    \/ LeaveLoop
    \/ FinalHold
    \/ Overlay
    \/ Generate
    \/ Close

Spec == Init /\ [][Next]_vars

\* the run is one thread: it takes its next step whenever it has one
FairSpec == Spec /\ WF_vars(Next)

\* run has returned, or the process has died in a panic
Terminated == pc \in {"done", "failed", "panic"}

----------------------------------------------------------------------------
(* Reading the histories *)

Count(seq, x) == Cardinality({j \in 1..Len(seq) : seq[j] = x})

\* the ExecuteBatch calls made so far
ExecCount == Count(events, "exec")

\* the attempts ExecuteBatch made in round r, in order
RoundAttempts(r) == SelectSeq(attempts, LAMBDA a : a.round = r)

Indices(seq) == [j \in 1..Len(seq) |-> seq[j].index]

\* the 0-based indices of the checkpoint-flagged actions of a list
FlaggedIndices(acts) == {j \in 0..(Len(acts) - 1) : acts[j + 1].Checkpoint}

MinOf(S) == CHOOSE m \in S : \A n \in S : m <= n

IsPrefix(s, t) == Len(s) <= Len(t) /\ \A j \in 1..Len(s) : s[j] = t[j]

\* the planner calls made before event j
CallsBefore(j) ==
    Cardinality({n \in 1..(j - 1) : events[n] \in {"plan", "continue"}})

\* the loop of run has ended and run has not failed before the GIF step
LoopEnded ==
    \/ pc \in {"holdFinal", "overlay", "gif", "close", "done"}
    \/ pc = "failed" /\ err = "GIF generation failed"

\* every image of frames stems from an attempt of round r at an index <= k
OnlyFromUpTo(frames, r, k) ==
    \A n \in 1..Len(frames) :
        frames[n] # NilImage =>
            \E j \in 1..Len(attempts) :
                /\ attempts[j].round = r
                /\ attempts[j].index <= k
                /\ attempts[j].first <= frames[n].Shot
                /\ frames[n].Shot <= attempts[j].last

----------------------------------------------------------------------------
(* Claims *)

\* C1 (as stated): when ExecuteBatch returns, the smallest checkpoint-flagged
\* index k of its list is the reported checkpoint, whatever the selectors did,
\* and nothing after k was executed or contributed frames.
C1_FirstFlaggedStops ==
    (pc = "accumulate" /\ FlaggedIndices(actions) # {}) =>
        LET k == MinOf(FlaggedIndices(actions))
        IN  /\ result.HitCheckpoint
            /\ result.CheckpointIndex = k
            /\ \A j \in 1..Len(attempts) :
                   attempts[j].round = iteration => attempts[j].index <= k
            /\ OnlyFromUpTo(result.Frames, iteration, k)

\* C1 (amended): when ExecuteBatch returns, the smallest index k whose action
\* is checkpoint-flagged and was not skipped is the reported checkpoint, and
\* no action after k was executed or contributed frames or cursor samples.
C1_FirstExecutedCheckpointStops ==
    pc = "accumulate" =>
        LET mine == RoundAttempts(iteration)
            skipped(j) == \E n \in 1..Len(mine) : mine[n].index = j /\ ~mine[n].ok
            live == {j \in FlaggedIndices(actions) : ~skipped(j)}
        IN  live # {} =>
                LET k == MinOf(live)
                IN  /\ result.HitCheckpoint
                    /\ result.CheckpointIndex = k
                    /\ \A n \in 1..Len(mine) : mine[n].index <= k
                    /\ OnlyFromUpTo(result.Frames, iteration, k)
                    /\ Len(result.CursorPositions) = Len(result.Frames)

\* C1 witness: a batch whose first flagged action was skipped stopped at the
\* second one, with an action left behind it
C1_Witness ==
    /\ pc = "accumulate"
    /\ Len(actions) = 3
    /\ actions[1].Checkpoint
    /\ result.HitCheckpoint
    /\ result.CheckpointIndex = 1

\* C2: for a list without a checkpoint-flagged action ExecuteBatch returns
\* HitCheckpoint = false and CheckpointIndex = -1 and has attempted every
\* action exactly once, in list order.
C2_NoCheckpointRunsAll ==
    (pc = "accumulate" /\ FlaggedIndices(actions) = {}) =>
        /\ ~result.HitCheckpoint
        /\ result.CheckpointIndex = -1
        /\ Indices(RoundAttempts(iteration)) = [j \in 1..Len(actions) |-> j - 1]

\* C2 witness: a two-action list without checkpoints returned, one action skipped
C2_Witness ==
    /\ pc = "accumulate"
    /\ Len(actions) = 2
    /\ FlaggedIndices(actions) = {}
    /\ \E j \in 1..Len(attempts) : attempts[j].round = iteration /\ ~attempts[j].ok

\* the step of ExecuteBatch on an action whose selector did not resolve
SkipStep ==
    /\ Len(attempts') = Len(attempts) + 1
    /\ ~attempts'[Len(attempts')].resolved

\* C3: an action whose selector does not resolve adds no frame and no cursor
\* sample, takes no screenshot, leaves the current cursor alone, raises no
\* error, and the batch goes on: the next action of the list is attempted.
C3_UnresolvedSelectorSkips ==
    /\ [][SkipStep =>
            /\ frameData' = frameData
            /\ currentCursor' = currentCursor
            /\ shots' = shots
            /\ result' = result
            /\ err' = "" /\ pc' = "batch"
            /\ idx' = idx + 1]_vars
    /\ [](pc = "accumulate" =>
            LET mine == RoundAttempts(iteration)
            IN  \A n \in 1..Len(mine) :
                    (~mine[n].resolved /\ mine[n].index + 1 < Len(actions)) =>
                        /\ n < Len(mine)
                        /\ mine[n + 1].index = mine[n].index + 1)

\* C3 witness: a skipped action was followed by an executed one
C3_Witness ==
    /\ pc = "accumulate"
    /\ \E n \in 1..(Len(attempts) - 1) :
           /\ ~attempts[n].resolved
           /\ attempts[n + 1].round = attempts[n].round
           /\ attempts[n + 1].ok
           /\ Len(result.Frames) > 0

\* the position in events of the b-th ExecuteBatch call
ExecPos(b) ==
    CHOOSE j \in 1..Len(events) :
        events[j] = "exec" /\ Count(SubSeq(events, 1, j), "exec") = b

\* C4: a round whose 5-action batch ends on a checkpoint at index 2 executed
\* actions 0..2 only, appends exactly actions 0..2 to the completed-action
\* log, is followed by re-analysis and then the continuation call, and the
\* next round executes the planner's new list, so actions 3..4 never run.
C4_CheckpointAtTwoOfFive ==
    /\ [][(pc = "accumulate" /\ Len(actions) = 5 /\ result.HitCheckpoint
              /\ result.CheckpointIndex = 2) =>
            /\ completedActions' =
                   completedActions \o <<actions[1], actions[2], actions[3]>>
            /\ pc' = "recrawl"]_vars
    /\ [](\A b \in 1..Len(batches) :
            (Len(batches[b].actions) = 5 /\ batches[b].hit /\ batches[b].index = 2) =>
                /\ Indices(RoundAttempts(b)) = <<0, 1, 2>>
                /\ IsPrefix(SubSeq(events, ExecPos(b) + 1,
                                   Min(Len(events), ExecPos(b) + 2)),
                            <<"recrawl", "continue">>)
                /\ b < Len(batches) => batches[b + 1].actions = Reply(script, b).actions)

\* C4 witness: the round after such a batch has been executed as well
C4_Witness ==
    /\ Len(batches) = 2
    /\ Len(batches[1].actions) = 5
    /\ batches[1].hit
    /\ batches[1].index = 2
    /\ pc = "done"

\* the continuation calls so far that returned an empty list
\* the overlay has crashed on a nil image that a failed screenshot left among
\* the frames
OverlayCrashedOnNilFrame ==
    /\ pc = "panic"
    /\ events[Len(events)] = "overlay"
    /\ \E n \in 1..Len(allFrames) : allFrames[n] = NilImage
    /\ failedShots # {}

EmptyContinuations ==
    {j \in 1..Len(events) :
        events[j] = "continue" /\ Reply(script, CallsBefore(j)) = Replied(<<>>)}

\* C5: after a continuation call that returns an empty list no batch is
\* executed and no page analysis or planning call is made; the run goes on,
\* without an error of the loop, to the final hold frames, the overlay and the
\* GIF encoder, which it reaches unless the overlay crashes on a nil frame.
C5_EmptyContinuationEndsLoop ==
    \A j \in EmptyContinuations :
        /\ IsPrefix(SubSeq(events, j + 1, Len(events)),
                    <<"hold", "overlay", "gif", "closePage", "closeBrowser">>)
        /\ \/ pc = "loop" /\ actions = <<>>
           \/ LoopEnded
           \/ OverlayCrashedOnNilFrame
        /\ err \in {"", "GIF generation failed"}
        /\ pc \in {"done", "failed"} => events[j + 3] = "gif"

\* C5 witness: a run whose continuation returned an empty list wrote its GIF
C5_Witness ==
    /\ pc = "done"
    /\ EmptyContinuations # {}
    /\ output # <<>>

\* every successful screenshot so far is in allFrames, once and in capture
\* order, with one cursor sample per frame
AllCapturesKept ==
    LET kept == SelectSeq(allFrames, LAMBDA image : image.Shot # 0)
    IN  /\ Len(allCursors) = Len(allFrames)
        /\ {kept[n].Shot : n \in 1..Len(kept)} = (1..shots) \ failedShots
        /\ \A n \in 1..(Len(kept) - 1) : kept[n].Shot < kept[n + 1].Shot

\* every batch so far hit a checkpoint and every continuation so far
\* returned a non-empty list
AlwaysCheckpointed ==
    /\ planCalls >= 1
    /\ \A n \in 0..(planCalls - 1) :
           ~Reply(script, n).fail /\ Reply(script, n).actions # <<>>
    /\ \A b \in 1..Len(batches) : batches[b].hit

\* C6: when every batch hits a checkpoint and every continuation returns a
\* non-empty list, the loop ends after exactly 20 batches with the warning,
\* every captured frame and cursor sample is kept, and the run goes on without
\* error to write the GIF; it ends otherwise only when the encoder fails or
\* the overlay crashes on a nil frame.
C6_IterationBoundKeepsFrames ==
    AlwaysCheckpointed =>
        /\ ExecCount <= maxIterations
        /\ LoopEnded =>
              /\ ExecCount = maxIterations
              /\ Len(batches) = maxIterations
              /\ warned
              /\ AllCapturesKept
        /\ pc \in {"overlay", "gif", "close", "done"} => err = ""
        /\ pc = "failed" => err = "GIF generation failed"
        /\ (pc = "panic" /\ events[Len(events)] = "overlay") => OverlayCrashedOnNilFrame
        /\ pc = "done" => output = <<GIF(allFrames, fps)>> /\ events[Len(events) - 2] = "gif"

\* C6 witness: such a run of 20 checkpointed rounds has written its GIF
C6_Witness ==
    /\ AlwaysCheckpointed
    /\ pc = "done"
    /\ ExecCount = maxIterations
    /\ warned
    /\ Len(allFrames) > 2 * maxIterations

\* the first action list is non-empty and has no checkpoint-flagged action
SingleBatchPlan ==
    /\ planCalls >= 1
    /\ ~Reply(script, 0).fail
    /\ Reply(script, 0).actions # <<>>
    /\ FlaggedIndices(Reply(script, 0).actions) = {}

\* C7: with a non-empty first list without checkpoints the loop runs one
\* round, calls neither re-analysis nor the continuation, prints no warning
\* and ends without error.
C7_OneRoundWithoutCheckpoint ==
    SingleBatchPlan =>
        /\ ExecCount <= 1
        /\ Count(events, "recrawl") = 0
        /\ Count(events, "continue") = 0
        /\ planCalls = 1
        /\ ~warned
        /\ LoopEnded => ExecCount = 1
        /\ err \in {"", "GIF generation failed"}
        /\ pc \in {"holdFinal", "overlay", "gif", "close", "done"} => err = ""
        /\ (pc = "panic" /\ events[Len(events)] = "overlay") => OverlayCrashedOnNilFrame

\* C7 witness: such a run has finished
C7_Witness ==
    /\ SingleBatchPlan
    /\ pc = "done"
    /\ ExecCount = 1

\* C8: every run in which the collaborators' calls return comes to an end, and
\* ExecuteBatch is called at most 20 times whatever the planner returns.
C8_LoopTerminates ==
    /\ <>Terminated
    /\ [](ExecCount <= maxIterations)

\* C8 witness: a run that called ExecuteBatch 20 times has ended
C8_Witness ==
    /\ Terminated
    /\ ExecCount = maxIterations
    /\ Reply(script, maxIterations).actions # <<>>

\* C9 (as stated): whenever run has returned, with or without an error, the
\* page and the browser have been closed.
C9_ReleasedOnEveryPath ==
    pc \in {"done", "failed"} => (~pageOpen /\ ~browserOpen)

\* the last planner call failed
PlannerFailed == planCalls >= 1 /\ Reply(script, planCalls - 1).fail

\* C10: when the first planning call or a continuation call fails, run
\* returns that error, executes no further batch and never invokes the GIF
\* generation, so there is no output file.
C10_PlanningFailureIsFatal ==
    PlannerFailed =>
        /\ pc = "failed"
        /\ err = IF planCalls = 1 THEN "action generation failed"
                                  ELSE "continue generation failed"
        /\ events[Len(events)] = IF planCalls = 1 THEN "plan" ELSE "continue"
        /\ Count(events, "gif") = 0
        /\ output = <<>>

\* C10 witness: a continuation call failed after a batch was recorded
C10_Witness ==
    /\ PlannerFailed
    /\ err = "continue generation failed"
    /\ ExecCount >= 1
    /\ Len(allFrames) > 0

----------------------------------------------------------------------------
(* driver failures, failed screenshots, the accumulated sequences *)

\* a driver call of a navigate action or of the re-analysis has failed
DriverCallFailed ==
    \/ \E j \in 1..Len(attempts) :
          attempts[j].action.Type = "navigate" /\ ~attempts[j].ok
    \/ pc = "panic" /\ events[Len(events)] = "recrawl"

\* C11 (as stated): when the navigation or load-wait of a navigate action
\* fails, or a wait of the re-analysis fails, ExecuteBatch or ReCrawl returns
\* an error and run ends with that error.
C11_DriverFailureIsReturned ==
    DriverCallFailed =>
        /\ pc = "failed"
        /\ err \in {"execution failed", "re-crawl failed"}

\* C12 (as stated): a failed screenshot adds no entry, nil or otherwise, to
\* the frames and cursor positions: the frames are the successful screenshots.
C12_FailedCaptureAddsNothing ==
    /\ \A n \in 1..Len(frameData) : frameData[n].Image # NilImage
    /\ \A n \in 1..Len(allFrames) : allFrames[n] # NilImage
    /\ pc \in {"loop", "holdFinal", "overlay"} =>
          /\ Len(allFrames) = shots - Cardinality(failedShots)
          /\ Len(allCursors) = shots - Cardinality(failedShots)

\* C13: the accumulated frames and cursor positions have the same length in
\* every state, every ExecuteBatch result has as many cursor positions as
\* frames, and the overlay works with one position per frame.
C13_OneCursorPerFrame ==
    /\ Len(allFrames) = Len(allCursors)
    /\ Len(frameData) = Len(Images(frameData))
    /\ Len(result.Frames) = Len(result.CursorPositions)
    /\ \A b \in 1..Len(batches) : batches[b].frames = batches[b].cursors
    /\ (Count(events, "overlay") = 1 /\ Len(allCursors) # 0)
          => Len(interpolated) = Len(allFrames)

\* C13 witness: the overlay has been given the frames of two rounds, one of
\* them with a nil image of a failed screenshot among them
C13_Witness ==
    /\ pc = "panic"
    /\ events[Len(events)] = "overlay"
    /\ Len(batches) >= 2
    /\ \A b \in 1..Len(batches) : batches[b].frames > 0
    /\ \E n \in 1..Len(allFrames) : allFrames[n] = NilImage
    /\ Len(allFrames) = Len(allCursors)
    /\ Len(interpolated) = Len(allFrames)

\* the screenshot numbers of a frame sequence
ShotsOf(frames) == [n \in 1..Len(frames) |-> frames[n].Shot]

\* the frames that hold an image are in the order of their screenshots
InCaptureOrder(frames) ==
    LET taken == SelectSeq(ShotsOf(frames), LAMBDA n : n # 0)
    IN  \A n \in 1..(Len(taken) - 1) : taken[n] < taken[n + 1]

\* C14: every step leaves the accumulated frames and cursor positions as they
\* were or appends to them (the overlay step replaces each frame by its
\* composited copy, in place), and the frames are in the order in which their
\* screenshots were taken.
C14_AppendOnlyInCaptureOrder ==
    /\ [][/\ IsPrefix(allCursors, allCursors')
          /\ IsPrefix(ShotsOf(allFrames), ShotsOf(allFrames'))
          /\ pc # "overlay" => IsPrefix(allFrames, allFrames')]_vars
    /\ [](InCaptureOrder(allFrames) /\ InCaptureOrder(Images(frameData)))

\* C14 witness: initial hold, two rounds and final hold have been accumulated
C14_Witness ==
    /\ pc = "overlay"
    /\ Count(events, "hold") = 2
    /\ Len(batches) >= 2
    /\ \A b \in 1..Len(batches) : batches[b].frames > 0
    /\ ShotsOf(allFrames) = [n \in 1..shots |-> n]

\* the batch ExecuteBatch returned last
LastBatch == batches[Len(batches)]

\* C15: the step after a round appends to the log the actions up to the
\* checkpoint index when the batch hit a checkpoint and the whole list
\* otherwise; no other step changes the log.
C15_LogGrowsByExecutedPrefix ==
    [][IF pc = "accumulate"
       THEN completedActions' = completedActions \o
               (IF LastBatch.hit
                THEN SubSeq(LastBatch.actions, 1, LastBatch.index + 1)
                ELSE LastBatch.actions)
       ELSE completedActions' = completedActions]_vars

\* C15 witness: a round cut at index 2 of 5 logged three actions and the next
\* round, without checkpoint, logged its whole list
C15_Witness ==
    /\ pc = "loop"
    /\ Len(batches) = 2
    /\ batches[1].hit /\ batches[1].index = 2 /\ Len(batches[1].actions) = 5
    /\ ~batches[2].hit
    /\ completedActions = SubSeq(batches[1].actions, 1, 3) \o batches[2].actions

\* the attempts of the rounds whose actions have been appended to the log
LoggedAttempts ==
    LET rounds == IF pc = "accumulate" THEN Len(batches) - 1 ELSE Len(batches)
    IN  SelectSeq(attempts, LAMBDA a : a.round <= rounds)

\* C16 (as stated): every action in the log was executed; a skipped action,
\* with an unresolved selector or an unknown type, is not in the log.
C16_LoggedActionsWereExecuted ==
    /\ Len(completedActions) = Len(LoggedAttempts)
    /\ \A n \in 1..Len(LoggedAttempts) :
          /\ completedActions[n] = LoggedAttempts[n].action
          /\ LoggedAttempts[n].ok

----------------------------------------------------------------------------
(* the cursor across rounds, the hold frames, the calls per round *)

\* the cursor batch b started with, as the claim has it
StartOf(b) ==
    IF b = 1 THEN CursorPosition(640, 360, "default", FALSE) ELSE batches[b - 1].last

\* the cursor before attempt j: where the attempt before it in the same round
\* left it, or the start cursor of the round
CursorBefore(j) ==
    IF j > 1 /\ attempts[j - 1].round = attempts[j].round
    THEN attempts[j - 1].cursor
    ELSE StartOf(attempts[j].round)

\* attempt j left the cursor at rest where its action puts it: on the centre
\* of the element for a click, type or hover that ran, where it was otherwise
AtRest(j) ==
    LET a == attempts[j]
    IN  IF a.ok /\ a.action.Type \in {"click", "type", "hover"}
        THEN /\ a.cursor.X = ElementCenter(a.action.Selector).x
             /\ a.cursor.Y = ElementCenter(a.action.Selector).y
             /\ ~a.cursor.Click
        ELSE a.cursor = CursorBefore(j)

\* the resting position of the last action of round b that ran, or the start
\* cursor when none ran
RestingOf(b) ==
    LET ran == SelectSeq(attempts, LAMBDA a : a.round = b /\ a.ok)
    IN  IF ran = <<>> THEN StartOf(b) ELSE ran[Len(ran)].cursor

\* C17: a batch starts with the cursor the batch before it returned as
\* LastCursor, the first batch at (640,360); the LastCursor of a batch is the
\* resting position of its last action that ran, or its start cursor.
C17_CursorCarriedAcrossRounds ==
    /\ [][(pc = "loop" /\ pc' = "batch") =>
             currentCursor' = StartOf(Len(batches) + 1)]_vars
    /\ [](/\ \A b \in 1..Len(batches) : batches[b].last = RestingOf(b)
          /\ \A j \in 1..Len(attempts) :
                attempts[j].round <= Len(batches) => AtRest(j)
          /\ pc \in {"loop", "recrawl", "continue", "holdFinal"} /\ Len(batches) > 0
                => lastCursor = <<LastBatch.last>>)

\* C17 witness: the second round has started where the first, which moved the
\* cursor, left it; a later round without a successful action returns it
C17_Witness ==
    /\ Len(batches) >= 2
    /\ batches[1].last # StartOf(1)
    /\ \E b \in 2..Len(batches) :
          /\ \A j \in 1..Len(attempts) : attempts[j].round = b => ~attempts[j].ok
          /\ \E j \in 1..Len(attempts) : attempts[j].round = b
          /\ batches[b].last = batches[b - 1].last

\* the last n entries of a sequence
LastN(seq, n) == SubSeq(seq, Len(seq) - n + 1, Len(seq))

\* C18: when no screenshot fails, the accumulated sequences begin with the fps
\* frames of the initial hold at (640,360) and, once the loop has ended, with
\* or without the warning, end with the fps frames of the final hold at the
\* LastCursor of the last batch; each hold is done once.
C18_HoldFramesOpenAndClose ==
    failedShots = {} =>
        /\ Count(events, "hold") <= 2
        /\ Count(events, "exec") > 0 => Count(events, "hold") >= 1
        /\ pc \in {"loop", "batch", "batchExit", "accumulate", "recrawl", "continue",
                   "holdFinal"} => Count(events, "hold") = 1
        /\ pc \in {"overlay", "gif", "close", "done"} => Count(events, "hold") = 2
        /\ Count(events, "hold") >= 1 =>
              /\ SubSeq(allCursors, 1, fps) =
                    [n \in 1..fps |-> CursorPosition(640, 360, "default", FALSE)]
              /\ SubSeq(ShotsOf(allFrames), 1, fps) = [n \in 1..fps |-> n]
              /\ attempts # <<>> => attempts[1].first = fps + 1
        /\ Count(events, "hold") = 2 =>
              /\ events[Len(events)] # "hold" \/ pc = "overlay"
              /\ Len(allFrames) = shots
              /\ shots = fps + (IF attempts = <<>> THEN fps
                                ELSE attempts[Len(attempts)].last)
              /\ LastN(allCursors, fps) =
                    [n \in 1..fps |-> IF batches = <<>>
                                      THEN CursorPosition(640, 360, "default", FALSE)
                                      ELSE LastBatch.last]
              /\ LastN(ShotsOf(allFrames), fps) = [n \in 1..fps |-> shots - fps + n]

\* C18 witness: a run without failed screenshots whose batches moved the
\* cursor has captured its final hold frames
C18_Witness ==
    /\ failedShots = {}
    /\ pc = "overlay"
    /\ Len(batches) >= 2
    /\ LastBatch.last # CursorPosition(640, 360, "default", FALSE)
    /\ allCursors[Len(allCursors)] = LastBatch.last
    /\ allCursors[1] = CursorPosition(640, 360, "default", FALSE)

\* the number of the batch that event j, an ExecuteBatch call or a call after
\* it, belongs to
RoundOf(j) == Count(SubSeq(events, 1, j), "exec")

\* C19: the page is analysed once at the start; after a batch that hit a
\* checkpoint come one re-analysis and then one continuation call, before the
\* next batch; after a batch that hit none comes neither.
C19_ReplanOncePerCheckpoint ==
    /\ \A j \in 1..Len(events) : events[j] = "crawl" <=> j = 1
    /\ \A j \in 1..Len(events) :
          /\ events[j] = "recrawl" =>
                /\ events[j - 1] = "exec"
                /\ batches[RoundOf(j)].hit
                /\ j < Len(events) => events[j + 1] = "continue"
          /\ events[j] = "continue" =>
                /\ events[j - 1] = "recrawl"
                /\ j < Len(events) => events[j + 1] \in {"exec", "hold"}
          /\ (events[j] = "exec" /\ j < Len(events)) =>
                events[j + 1] = IF batches[RoundOf(j)].hit THEN "recrawl" ELSE "hold"
    /\ (LoopEnded \/ pc = "loop") =>
          /\ Count(events, "recrawl") = Cardinality({b \in 1..Len(batches) : batches[b].hit})
          /\ Count(events, "continue") = Count(events, "recrawl")

\* C19 witness: a run of a round with a checkpoint and a round without one made
\* one re-analysis and one continuation call
C19_Witness ==
    /\ pc = "done"
    /\ Len(batches) = 2
    /\ batches[1].hit /\ ~batches[2].hit
    /\ Count(events, "crawl") = 1
    /\ Count(events, "recrawl") = 1
    /\ Count(events, "continue") = 1

----------------------------------------------------------------------------
(* overlay.ApplyCursor on its own: any frames, any positions *)

\* the cursor positions given to ApplyCursor: unset, unset with the click
\* flag, clicking, typing
Waypoints ==
    { CursorPosition(0, 0, "default", FALSE),
      CursorPosition(0, 0, "pointer", TRUE),
      CursorPosition(100, 200, "pointer", TRUE),
      CursorPosition(910, 40, "text", FALSE) }

\* the sequences over S of length at most n
SeqsUpTo(S, n) == UNION {[1..k -> S] : k \in 0..n}

\* ApplyCursor is about to be called with up to MaxFrames frames and up to
\* MaxWaypoints positions, fewer than, as many as or more than the frames
OverlayInit ==
    /\ pc = "overlay"
    /\ script = Script(<<>>, Replied(<<>>))
    /\ planCalls = 0
    /\ fps \in FPSValues
    /\ actions = <<>>
    /\ iteration = 0
    /\ \E n \in 0..MaxFrames : allFrames = [k \in 1..n |-> Screenshot(k)]
    /\ allCursors \in SeqsUpTo(Waypoints, MaxWaypoints)
    /\ completedActions = <<>>
    /\ lastCursor = <<>>
    /\ err = ""
    /\ warned = FALSE
    /\ pageOpen = TRUE
    /\ browserOpen = TRUE
    /\ output = <<>>
    /\ fileSize = <<>>
    /\ idx = 0
    /\ frameData = <<>>
    /\ currentCursor = DefaultCursor
    /\ result = NoResult
    /\ interpolated = <<>>
    /\ args = <<>>
    /\ ret = <<>>
    /\ shots = Len(allFrames)
    /\ failedShots = {}
    /\ unresolved = 0
    /\ events = <<>>
    /\ attempts = <<>>
    /\ batches = <<>>

OverlayNext == Overlay

OverlaySpec == OverlayInit /\ [][OverlayNext]_vars

\* the waypoint indices interpolatePositions reads for frame i (0-based)
WaypointReads(i, m, frameCount) ==
    {WaypointIndex(i, m, frameCount)}
        \cup (IF WaypointIndex(i, m, frameCount) < m - 1
              THEN {WaypointIndex(i, m, frameCount) + 1} ELSE {})

\* C20: for N frames and M waypoints, 1 <= M <= N, interpolatePositions
\* returns N positions, the last of them the last waypoint, and reads no
\* waypoint index outside 0..M-1.
C20_InterpolationEndsOnLastWaypoint ==
    LET N == Len(allFrames)
        M == Len(allCursors)
    IN  (Count(events, "overlay") = 1 /\ 1 <= M /\ M <= N) =>
            /\ Len(interpolated) = N
            /\ interpolated[N] = allCursors[M]
            /\ \A i \in 0..(N - 1) : WaypointReads(i, M, N) \subseteq 0..(M - 1)

\* C20 witness: three frames over two different waypoints: the middle frame
\* lies between the two and the last frame is on the second
C20_Witness ==
    /\ Count(events, "overlay") = 1
    /\ Len(allFrames) = 3
    /\ Len(allCursors) = 2
    /\ allCursors[1].X # allCursors[2].X
    /\ interpolated[2].X # allCursors[1].X
    /\ interpolated[2].X # allCursors[2].X
    /\ interpolated[3] = allCursors[2]

----------------------------------------------------------------------------
(* gifgen.Generate on its own: the last two steps of run, from any frame   *)
(* rate up to MaxFPS and any number of frames up to MaxFrames, none        *)
(* included (every capture of the run failed).                             *)

\* the variables of run and ExecuteBatch that a call studied on its own
\* leaves at their initial values
RunIdle ==
    /\ script = Script(<<>>, Replied(<<>>))
    /\ planCalls = 0
    /\ iteration = 0
    /\ completedActions = <<>>
    /\ err = ""
    /\ warned = FALSE
    /\ output = <<>>
    /\ fileSize = <<>>
    /\ idx = 0
    /\ frameData = <<>>
    /\ currentCursor = DefaultCursor
    /\ result = NoResult
    /\ interpolated = <<>>
    /\ failedShots = {}
    /\ unresolved = 0
    /\ events = <<>>
    /\ attempts = <<>>
    /\ batches = <<>>

\* run is about to call gifgen.Generate
GenerateInit ==
    /\ pc = "gif"
    /\ fps \in 1..MaxFPS
    /\ actions = <<>>
    /\ \E n \in 0..MaxFrames :
           /\ allCursors = [k \in 1..n |-> DefaultCursor]
           /\ allFrames = drawAll([k \in 1..n |-> Screenshot(k)], allCursors)
    /\ lastCursor = <<DefaultCursor>>
    /\ pageOpen = TRUE
    /\ browserOpen = TRUE
    /\ args = <<>>
    /\ ret = <<>>
    /\ shots = Len(allFrames)
    /\ RunIdle

GenerateNext == Generate \/ Close

GenerateSpec == GenerateInit /\ [][GenerateNext]_vars

\* 100/f rounded to the nearest integer
RoundedDelay(f) == (2 * 100 + f) \div (2 * f)

\* C24: for every positive frame rate and every frame of the written GIF,
\* the frame's display delay is round(100 / fps) hundredths of a second.
\* Violated: Generate divides as integers, so the delay is 100 / fps rounded
\* down (16 instead of 17 at 6 frames per second).
C24_DelayIsRounded ==
    output # <<>> =>
        \A i \in 1..output[1].Image : output[1].Delay[i] = RoundedDelay(fps)

\* C25: every run that ends without error has written one file at the output
\* path and reports the size of that file, the run without a single frame
\* included.  Violated: with no frames Generate returns a size of 0 and a nil
\* error before it creates the file, and run reports success.
C25_SuccessfulRunWroteFile ==
    (pc = "done" /\ err = "") => (output # <<>> /\ fileSize = <<"stat">>)

----------------------------------------------------------------------------
(* ExecuteBatch on its own: one call with a list of one or two actions, at *)
(* frame rates on both sides of the 5-step minimum, from the default       *)
(* cursor or from a cursor a batch before it left.                         *)

\* frame rates: movementFrames is 0, 1, 5 and 6 without the minimum
BatchFPS == {1, 2, 10, 12}

\* typed texts as the byte lengths of their characters: ASCII only, and with
\* characters of two and three bytes in every position
Texts ==
    { <<1>>, <<2>>, <<3>>, <<1, 1>>, <<1, 2>>, <<2, 1>>, <<1, 3>>, <<1, 1, 1>>,
      <<2, 1, 1>>, <<1, 2, 1>>, <<1, 1, 2>>, <<1, 1, 1, 1>>, <<1, 1, 1, 1, 1>> }

\* the actions of the lists: every animated type, waits below one frame
\* interval, of a few frames and beyond the cap, with and without checkpoint
BatchActions ==
    {Action(t, sel, <<>>, 0, cp) : t \in {"click", "hover"}, sel \in {"#a", "#b"},
                                   cp \in BOOLEAN}
    \cup {Action("click", "#a", <<>>, w, TRUE) : w \in {10, 6000}}
    \cup {Type("#b", text, FALSE) : text \in Texts}
    \cup {Wait(w, FALSE) : w \in {0, 10}}
    \cup {Wait(800, TRUE), Wait(6000, TRUE), Scroll(FALSE)}

\* one action, or an action that does not stop the batch and a hover after it
BatchLists ==
    {<<a>> : a \in BatchActions}
    \cup {<<a, Hover("#b", FALSE)>> :
             a \in {b \in BatchActions : b.Type \in {"click", "wait"} /\ ~b.Checkpoint}}

\* run is at the head of its loop with a list to execute
BatchInit ==
    /\ pc = "loop"
    /\ fps \in BatchFPS
    /\ actions \in BatchLists
    /\ allFrames = <<>>
    /\ allCursors = <<>>
    /\ lastCursor \in {<<>>, <<CursorPosition(910, 40, "text", FALSE)>>}
    /\ pageOpen = TRUE
    /\ browserOpen = TRUE
    /\ args = <<>>
    /\ ret = <<>>
    /\ shots = 0
    /\ RunIdle

BatchNext == EnterBatch \/ BatchStep \/ BatchReturn

BatchSpec == BatchInit /\ [][BatchNext]_vars

\* the cursor the one batch of BatchSpec had before its attempt j
CursorAtStartOf(j) ==
    IF j > 1 THEN attempts[j - 1].cursor ELSE StartCursor(lastCursor)

\* the frames of frameData taken by attempt j before its post-wait
AnimationFramesOf(j) ==
    SelectSeq(frameData, LAMBDA fd : /\ fd.Image.Shot >= attempts[j].first
                                      /\ fd.Image.Shot < attempts[j].waitFrom)

\* the frames of frameData taken by the post-wait of attempt j
PostWaitFramesOf(j) ==
    SelectSeq(frameData, LAMBDA fd : /\ fd.Image.Shot >= attempts[j].waitFrom
                                      /\ fd.Image.Shot <= attempts[j].last)

\* attempts that moved the cursor to an element
Moved(j) == attempts[j].ok /\ attempts[j].action.Type \in {"click", "type", "hover"}

Between(v, a, b) == Min(a, b) <= v /\ v <= (IF a <= b THEN b ELSE a)

\* C21: every cursor position recorded during the movement phase of a
\* click, type or hover lies within the bounding box of the cursor the action
\* started from and the centre of the target element.  Violated: the hover
\* loop has no minimum step count, so below 2 frames per second its one step
\* interpolates with t = 0/0 and records int(NaN) for both coordinates.
C21_InterpolatedWithinBox ==
    \A j \in 1..Len(attempts) :
        Moved(j) =>
            \A k \in 1..Len(AnimationFramesOf(j)) :
                LET at == AnimationFramesOf(j)[k].Cursor
                    from == CursorAtStartOf(j)
                    to == ElementCenter(attempts[j].action.Selector)
                IN  Between(at.X, from.X, to.x) /\ Between(at.Y, from.Y, to.y)

\* the step count the movement phase is to have
MinimumSteps(f) == IF f \div 2 < 5 THEN 5 ELSE f \div 2

\* C26: a click or hover that ran took max(5, fps div 2) movement steps: the
\* screenshot of step 0 has the cursor where the action found it, the
\* screenshot of the last step has it on the centre of the element, and the
\* click burst or hover hold follows.  Violated: hover takes fps div 2 steps
\* with no minimum, 1 step at 2 frames per second.
C26_MovementHasFiveSteps ==
    \A j \in 1..Len(attempts) :
        (attempts[j].ok /\ attempts[j].action.Type \in {"click", "hover"}) =>
            LET a == attempts[j]
                to == ElementCenter(a.action.Selector)
                after == IF a.action.Type = "click" THEN ClickFrames(fps) ELSE fps \div 4
            IN  /\ a.waitFrom - a.first = MinimumSteps(fps) + 1 + after
                /\ \A k \in 1..Len(frameData) :
                       LET fd == frameData[k]
                       IN  /\ fd.Image.Shot = a.first =>
                                 /\ fd.Cursor.X = CursorAtStartOf(j).X
                                 /\ fd.Cursor.Y = CursorAtStartOf(j).Y
                           /\ fd.Image.Shot = a.first + MinimumSteps(fps) =>
                                 /\ fd.Cursor.X = to.x
                                 /\ fd.Cursor.Y = to.y
                                 /\ ~fd.Cursor.Click

\* every other character counted from 1, and the last one
EveryOtherAndLast(n) == SelectSeq([k \in 1..n |-> k], LAMBDA k : k % 2 = 1 \/ k = n)

\* C27: a type action with a non-empty text asks for a screenshot after the
\* characters 1, 3, 5, ... and after the last character, and with every
\* capture successful each of them is a frame between the focus frame and the
\* hold.  Violated: the loop tests the byte offset of the character, so after
\* a character of more than one byte the parity shifts and the last character
\* is missed when it is longer than one byte.
C27_EveryOtherCharacterAndLast ==
    \A j \in 1..Len(attempts) :
        LET a == attempts[j]
        IN  (a.ok /\ a.action.Type = "type" /\ a.action.Text # <<>>) =>
                /\ CapturedChars(a.action.Text) = EveryOtherAndLast(Len(a.action.Text))
                /\ failedShots = {} =>
                       Len(AnimationFramesOf(j))
                           = MovementFrames(fps) + 1 + 1
                             + Len(EveryOtherAndLast(Len(a.action.Text))) + fps \div 4

\* the number of post-wait frames as the claim gives it
PostWaitCount(a, f) ==
    LET w == IF a.action.Duration # 0 THEN a.action.Duration ELSE BaseDelay
        n == w \div (1000 \div f)
    IN  Min(60, IF n < 1 THEN 1 ELSE n)

\* C28: after every action that ran, the post-wait asks for
\* min(60, max(1, w div frameIntervalMs)) screenshots, w the action's wait or
\* else the base delay, and every one that succeeds is recorded with the
\* cursor the action left; when the batch stops at a checkpoint, the
\* post-wait of the checkpoint action has been taken.
C28_PostWaitFrames ==
    /\ \A j \in 1..Len(attempts) :
           attempts[j].ok =>
               /\ attempts[j].last - attempts[j].waitFrom + 1
                      = PostWaitCount(attempts[j], fps)
               /\ \A n \in attempts[j].waitFrom..attempts[j].last :
                      n \notin failedShots =>
                          \E k \in 1..Len(frameData) :
                              /\ frameData[k].Image.Shot = n
                              /\ frameData[k].Cursor = attempts[j].cursor
               /\ attempts[j].cursor = IF j < Len(attempts) THEN CursorAtStartOf(j + 1)
                                                            ELSE currentCursor
    /\ (pc \in {"batchExit", "accumulate"} /\ result.HitCheckpoint) =>
           LET a == attempts[Len(attempts)]
           IN  /\ a.ok /\ a.action.Checkpoint
               /\ a.index = result.CheckpointIndex
               /\ a.last = shots
               /\ Len(PostWaitFramesOf(Len(attempts)))
                      = PostWaitCount(a, fps)
                        - Cardinality(failedShots \cap (a.waitFrom..a.last))

\* C28 witness: a batch stopped at a checkpoint action that asked for a wait
\* beyond the cap, and all 60 post-wait frames are in frameData
C28_Witness ==
    /\ pc = "accumulate"
    /\ result.HitCheckpoint
    /\ attempts[Len(attempts)].action.Duration = 6000
    /\ fps = 12
    /\ Len(PostWaitFramesOf(Len(attempts))) = 60

----------------------------------------------------------------------------
(* the wait action *)

\* the number of frames of a wait of d milliseconds as the claim gives it
WaitCount(d, f) ==
    LET n == d \div (1000 \div f)
    IN  Min(60, IF n < 1 THEN 1 ELSE n)

\* C38: a wait action with a duration d other than 0 asks for
\* min(60, max(1, d div frameIntervalMs)) screenshots for the wait itself and
\* for as many again in its post-wait, and returns the cursor it was given;
\* when no capture failed, twice that many frames are recorded for it, all
\* with that cursor.
C38_WaitCapturesTwice ==
    \A j \in 1..Len(attempts) :
        (attempts[j].ok /\ attempts[j].action.Type = "wait"
                        /\ attempts[j].action.Duration # 0) =>
            LET n == WaitCount(attempts[j].action.Duration, fps)
                taken == AnimationFramesOf(j) \o PostWaitFramesOf(j)
            IN  /\ attempts[j].waitFrom - attempts[j].first = n
                /\ attempts[j].last - attempts[j].waitFrom + 1 = n
                /\ attempts[j].cursor = CursorAtStartOf(j)
                /\ failedShots = {} =>
                       /\ Len(AnimationFramesOf(j)) = n
                       /\ Len(PostWaitFramesOf(j)) = n
                       /\ Len(taken) = 2 * n
                       /\ \A k \in 1..Len(taken) :
                              taken[k].Cursor = CursorAtStartOf(j)

\* C38 witness: a wait of 6 seconds at 12 frames per second, from a cursor
\* an earlier batch left, was recorded with 60 frames and 60 more
C38_Witness ==
    /\ pc = "accumulate"
    /\ failedShots = {}
    /\ fps = 12
    /\ lastCursor # <<>>
    /\ Len(attempts) = 1
    /\ attempts[1].action.Type = "wait"
    /\ attempts[1].action.Duration = 6000
    /\ Len(frameData) = 120
    /\ \A k \in 1..120 : frameData[k].Cursor = lastCursor[1]

----------------------------------------------------------------------------
(* the result of ExecuteBatch *)

\* C31: in every result ExecuteBatch returns, HitCheckpoint is false exactly
\* when CheckpointIndex is -1; when it is true, CheckpointIndex is an index
\* of the list, the action there is checkpoint-flagged, it ran without error
\* and its post-wait was taken, and it is the last action attempted; a
\* flagged action that was skipped is followed by the next action of the
\* list, or ends the list without a checkpoint being reported.
C31_CheckpointResultConsistent ==
    pc = "accumulate" =>
        LET mine == RoundAttempts(iteration)
            k == result.CheckpointIndex
        IN  /\ ~result.HitCheckpoint <=> k = -1
            /\ result.HitCheckpoint =>
                   /\ 0 <= k /\ k < Len(actions)
                   /\ actions[k + 1].Checkpoint
                   /\ Len(mine) > 0
                   /\ LET a == mine[Len(mine)]
                      IN  /\ a.index = k
                          /\ a.ok
                          /\ a.action = actions[k + 1]
                          /\ a.last = shots
                          /\ a.last - a.waitFrom + 1
                                 = WaitFrameCount(WaitTime(a.action), fps)
            /\ \A n \in 1..Len(mine) :
                   (~mine[n].ok /\ mine[n].action.Checkpoint) =>
                       IF n < Len(mine) THEN mine[n + 1].index = mine[n].index + 1
                       ELSE ~result.HitCheckpoint /\ mine[n].index = Len(actions) - 1

\* C31 witness: a batch skipped a flagged action of an unknown type, went on,
\* and stopped at the flagged action two places later
C31_Witness ==
    /\ pc = "accumulate"
    /\ result.HitCheckpoint
    /\ result.CheckpointIndex = 2
    /\ \E j \in 1..Len(attempts) :
           /\ attempts[j].round = iteration
           /\ attempts[j].index = 0
           /\ ~attempts[j].ok
           /\ attempts[j].resolved
           /\ attempts[j].action.Checkpoint

----------------------------------------------------------------------------
(* the max-iterations warning *)

\* C32: the warning is printed only when the bound of 20 rounds cut off a
\* list of actions still to be executed.  Violated: the test after the loop
\* looks at the round counter alone, so a run whose 20th batch hits no
\* checkpoint, or whose continuation after it is empty, is warned as well.
C32_WarningOnlyWhenCutOff ==
    warned => Len(actions) > 0

----------------------------------------------------------------------------
(* the click flag *)

\* ExecuteBatch is running or has just returned
InBatch == pc \in {"batch", "batchExit", "accumulate"}

\* the frames accumulated so far, those of the running batch included
FramesSoFar == IF InBatch THEN allFrames \o Images(frameData) ELSE allFrames

\* the cursor samples accumulated so far, those of the running batch included
CursorsSoFar == IF InBatch THEN allCursors \o Cursors(frameData) ELSE allCursors

\* the length of the click burst as the claim gives it
ClickBurst(f) == IF f \div 3 > 3 THEN f \div 3 ELSE 3

\* the screenshots of the click burst of attempt j: the last ones before its
\* post-wait
BurstShots(j) == (attempts[j].waitFrom - ClickBurst(fps))..(attempts[j].waitFrom - 1)

Clicked(j) == attempts[j].ok /\ attempts[j].action.Type = "click"

\* C33: a cursor sample has the click flag only if it is one of the
\* max(3, fps div 3) samples at the centre of the element taken right after
\* the click of a click action, and each such burst is there but for its
\* failed screenshots; the cursor every action returns, the LastCursor of
\* every batch, every post-wait sample and every hold sample have it cleared.
C33_ClickFlagOnlyInBurst ==
    /\ Len(CursorsSoFar) = Len(FramesSoFar)
    /\ \A n \in 1..Len(CursorsSoFar) :
           CursorsSoFar[n].Click =>
               \E j \in 1..Len(attempts) :
                   /\ Clicked(j)
                   /\ FramesSoFar[n].Shot \in BurstShots(j)
                   /\ CursorsSoFar[n].X = ElementCenter(attempts[j].action.Selector).x
                   /\ CursorsSoFar[n].Y = ElementCenter(attempts[j].action.Selector).y
    /\ \A j \in 1..Len(attempts) :
           /\ Clicked(j) =>
                  Cardinality({n \in 1..Len(CursorsSoFar) :
                                  /\ CursorsSoFar[n].Click
                                  /\ FramesSoFar[n].Shot \in BurstShots(j)})
                      = ClickBurst(fps) - Cardinality(failedShots \cap BurstShots(j))
           /\ ~attempts[j].cursor.Click
           /\ \A n \in 1..Len(CursorsSoFar) :
                  (attempts[j].ok /\ FramesSoFar[n].Shot >= attempts[j].waitFrom
                                 /\ FramesSoFar[n].Shot <= attempts[j].last) =>
                      ~CursorsSoFar[n].Click
    /\ ~currentCursor.Click
    /\ ~result.LastCursor.Click
    /\ lastCursor # <<>> => ~lastCursor[1].Click
    /\ \A b \in 1..Len(batches) : ~batches[b].last.Click
    /\ \A n \in 1..Len(CursorsSoFar) :
           (\A j \in 1..Len(attempts) :
                ~(FramesSoFar[n].Shot \in attempts[j].first..attempts[j].last)) =>
               ~CursorsSoFar[n].Click

\* C33 witness: the recording is complete, a click was the last action to
\* move the cursor, its burst is among the samples and the closing hold
\* samples rest on the clicked element without the flag
C33_Witness ==
    /\ pc = "overlay"
    /\ Len(allCursors) > 0
    /\ \E j \in 1..Len(attempts) :
           /\ Clicked(j)
           /\ \E n \in 1..Len(allCursors) :
                  allCursors[n].Click /\ allFrames[n].Shot \in BurstShots(j)
           /\ LET c == ElementCenter(attempts[j].action.Selector)
              IN  allCursors[Len(allCursors)]
                      = CursorPosition(c.x, c.y, "pointer", FALSE)
           /\ allFrames[Len(allFrames)].Shot > attempts[Len(attempts)].last

----------------------------------------------------------------------------
(* the path of the cursor *)

Position(c) == <<c.X, c.Y>>

\* the position of sample n of the sequence so far; before the first sample
\* of a batch that has none before it the cursor rests where the batch is
\* told to start (and nothing precedes the first hold sample)
PositionAt(n) ==
    IF n >= 1 THEN Position(CursorsSoFar[n])
    ELSE IF allCursors = <<>> THEN Position(StartCursor(lastCursor))
    ELSE Position(allCursors[1])

Target(j) ==
    <<ElementCenter(attempts[j].action.Selector).x,
      ElementCenter(attempts[j].action.Selector).y>>

\* sample n was taken by the animation of attempt j, before its post-wait
InAnimationOf(n, j) ==
    /\ n >= 1
    /\ FramesSoFar[n].Shot >= attempts[j].first
    /\ FramesSoFar[n].Shot < attempts[j].waitFrom

\* C34: when no capture has failed and the frame rate is at least 2, two
\* consecutive cursor samples differ in position only when both belong to
\* the animation of one click, type or hover; there the cursor, once at the
\* centre of the target, stays on it, and the animation ends on it; so every
\* movement starts where the cursor rested and every scroll, wait, navigate,
\* post-wait and hold sample has the position of the sample before it.
C34_CursorNeverJumps ==
    (failedShots = {} /\ fps >= 2) =>
        /\ \A n \in 1..Len(CursorsSoFar) :
               PositionAt(n) # PositionAt(n - 1) =>
                   \E j \in 1..Len(attempts) :
                       /\ Moved(j)
                       /\ InAnimationOf(n, j)
                       /\ InAnimationOf(n - 1, j)
        /\ \A j \in 1..Len(attempts) :
               Moved(j) =>
                   /\ Position(attempts[j].cursor) = Target(j)
                   /\ \E n \in 1..Len(CursorsSoFar) :
                          /\ FramesSoFar[n].Shot = attempts[j].waitFrom - 1
                          /\ PositionAt(n) = Target(j)
                   /\ \A n \in 1..(Len(CursorsSoFar) - 1) :
                          (InAnimationOf(n, j) /\ InAnimationOf(n + 1, j)
                             /\ PositionAt(n) = Target(j)) =>
                              PositionAt(n + 1) = Target(j)

\* C34 witness: a complete recording without a failed capture in which the
\* cursor went to one element in one round and on to another in a later
\* round, and the closing hold samples rest on the second
C34_Witness ==
    /\ pc = "overlay"
    /\ failedShots = {}
    /\ \E i, j \in 1..Len(attempts) :
           /\ Moved(i) /\ Moved(j)
           /\ attempts[i].round < attempts[j].round
           /\ Target(i) # Target(j)
           /\ \A k \in (j + 1)..Len(attempts) : ~Moved(k)
           /\ Len(allCursors) > 0
           /\ Position(allCursors[Len(allCursors)]) = Target(j)

----------------------------------------------------------------------------
(* executor.Execute, the deprecated executor, next to the path of run:     *)
(* run records one list (the hold frames, one ExecuteBatch, the hold       *)
(* frames), then Execute is called on the same list with the browser       *)
(* behaving as it did: the same selectors resolve, the same screenshots    *)
(* fail.  args keeps the list, ret is what Execute returns.                *)

ListNoCp == <<Hover("#b", FALSE), Scroll(FALSE), Navigate(FALSE), Click("#a", FALSE)>>

ExecuteLists == {<<>>, ListA, ListB, ListWait, ListTwoCp, ListUnknown, ListNoCp}

\* the slots of s that are screenshots base + k in failed
FailingAmong(s, base, failed) == {k \in 1..Len(s) : base + k \in failed}

RECURSIVE ExecuteLoop(_, _, _, _, _, _, _, _)
\* the loop of Execute from action i (counted from 1) on: an action that
\* returns an error is skipped, no checkpoint test (at the frame rates of
\* FPSValues no conversion meets a NaN)
ExecuteLoop(list, i, cur, fd, base, f, resolves, failed) ==
    IF i > Len(list) THEN [frameData |-> fd, cursor |-> cur, shots |-> base]
    ELSE LET out == executeActionAnimated(list[i], cur, f, resolves[i], 0)
         IN  IF out.err
             THEN ExecuteLoop(list, i + 1, cur, fd, base, f, resolves, failed)
             ELSE LET slots == ActionSlots(list[i], out, f)
                  IN  ExecuteLoop(list, i + 1, out.cursor,
                                  fd \o Capture(slots, FailingAmong(slots, base, failed), base),
                                  base + Len(slots), f, resolves, failed)

\* mutant: the final frames are recorded at the default position
Execute_FinalAtDefault(list, f, resolves, failed) ==
    LET hold == RepeatSlots(f, DefaultCursor)
    IN  IF FailingAmong(hold, 0, failed) # {}
        THEN [err |-> TRUE, images |-> <<>>, positions |-> <<>>]
        ELSE LET after == ExecuteLoop(list, 1, DefaultCursor, Capture(hold, {}, 0), f,
                                      f, resolves, failed)
                 final == RepeatSlots(f, DefaultCursor)
                 all == after.frameData
                          \o Capture(final, FailingAmong(final, after.shots, failed),
                                     after.shots)
             IN  [err |-> FALSE, images |-> Images(all), positions |-> Cursors(all)]

\* Execute: FPS initial frames at the default position, a failed one being an
\* error; every action with its post-wait; FPS final frames at the cursor
\* the last action left, failed ones dropped
Execute(list, f, resolves, failed) ==
    LET hold == RepeatSlots(f, DefaultCursor)
    IN  IF FailingAmong(hold, 0, failed) # {}
        THEN [err |-> TRUE, images |-> <<>>, positions |-> <<>>]
        ELSE LET after == ExecuteLoop(list, 1, DefaultCursor, Capture(hold, {}, 0), f,
                                      f, resolves, failed)
                 final == RepeatSlots(f, after.cursor)
                 all == after.frameData
                          \o Capture(final, FailingAmong(final, after.shots, failed),
                                     after.shots)
             IN  [err |-> FALSE, images |-> Images(all), positions |-> Cursors(all)]

\* which selectors of the list resolve: as they did for the actions the
\* batch attempted, and either way for the others
ResolutionsLike(list) ==
    {r \in [1..Len(list) -> BOOLEAN] :
        /\ \A j \in 1..Len(attempts) : r[attempts[j].index + 1] = attempts[j].resolved
        /\ \A i \in 1..Len(list) : ~r[i] => UsesSelector(list[i])
        /\ Cardinality({i \in 1..Len(list) : ~r[i]}) <= MaxUnresolved}

\* run has its action list and is about to capture the initial hold frames
ExecuteInit ==
    /\ pc = "holdInit"
    /\ args \in [actions : ExecuteLists]
    /\ actions = args.actions
    /\ ret = <<>>
    /\ fps \in FPSValues
    /\ allFrames = <<>>
    /\ allCursors = <<>>
    /\ lastCursor = <<>>
    /\ pageOpen = TRUE
    /\ browserOpen = TRUE
    /\ shots = 0
    /\ RunIdle

\* the path of run for the list is at its end: the batch stopped at a
\* checkpoint, or the final hold frames are taken
RecordedOneList == pc \in {"recrawl", "overlay"}

\* Execute is called on the list
CallExecute ==
    /\ RecordedOneList
    /\ \E resolves \in ResolutionsLike(args.actions) :
           ret' = Execute(args.actions, fps, resolves, failedShots)
    /\ pc' = "compared"
    /\ UNCHANGED <<runVars, fps, args, batchVars, interpolated, shots, failedShots,
                   unresolved, events, attempts, batches>>

ExecuteNext ==
    \/ InitialHold
    \/ EnterBatch
    \/ BatchStep
    \/ NavigatePanics
    \/ BatchReturn
    \/ Accumulate
    \/ LeaveLoop
    \/ FinalHold
    \/ CallExecute

ExecuteSpec == ExecuteInit /\ [][ExecuteNext]_vars

\* C36: when no capture failed, Execute returns no error, and for a list
\* without checkpoint flags its frames and cursor positions are those run
\* accumulated for the list: the initial hold frames, the result of
\* ExecuteBatch from the default cursor, the final hold frames at the
\* batch's last cursor; when the batch stopped at a checkpoint, what run
\* accumulated up to there is the beginning of what Execute returns, which
\* goes on with the actions after it.
C36_ExecuteAgreesWithBatchPath ==
    (pc = "compared" /\ failedShots = {}) =>
        /\ ~ret.err
        /\ Len(ret.images) = Len(ret.positions)
        /\ FlaggedIndices(args.actions) = {} =>
               /\ ~result.HitCheckpoint
               /\ ret.images = allFrames
               /\ ret.positions = allCursors
               /\ Len(allFrames) = 2 * fps + Len(result.Frames)
        /\ ~result.HitCheckpoint =>
               ret.images = allFrames /\ ret.positions = allCursors
        /\ result.HitCheckpoint =>
               /\ IsPrefix(allFrames, ret.images)
               /\ IsPrefix(allCursors, ret.positions)
               /\ Len(ret.images) >= Len(allFrames) + fps

\* C36 witness: a list of four actions without checkpoint, one of them
\* skipped, was recorded both ways without a failed capture
C36_Witness ==
    /\ pc = "compared"
    /\ failedShots = {}
    /\ args.actions = ListNoCp
    /\ unresolved = 1
    /\ ~ret.err
    /\ ret.images = allFrames
    /\ Len(ret.images) > 2 * fps

----------------------------------------------------------------------------
(* overlay.ApplyCursor on the normal path: one cursor sample per frame *)

\* the sample sequences: k samples of one cursor, then samples of another
SwitchingSamples(n) ==
    {[i \in 1..n |-> IF i <= k THEN a ELSE b] : k \in 0..n, a \in Waypoints, b \in Waypoints}

\* run is about to call ApplyCursor with as many samples as frames
PerFrameInit ==
    /\ pc = "overlay"
    /\ \E n \in 1..MaxSamples :
           /\ allFrames = [k \in 1..n |-> Screenshot(k)]
           /\ allCursors \in SwitchingSamples(n)
    /\ shots = Len(allFrames)
    /\ fps \in FPSValues
    /\ actions = <<>>
    /\ lastCursor = <<>>
    /\ pageOpen = TRUE
    /\ browserOpen = TRUE
    /\ args = <<>>
    /\ ret = <<>>
    /\ RunIdle

PerFrameNext == Overlay

PerFrameSpec == PerFrameInit /\ [][PerFrameNext]_vars

\* C35: with as many cursor samples as frames, ApplyCursor returns as many
\* frames as it was given, frame i being screenshot i with exactly sample i
\* drawn on it: same position, state and click flag.  Violated: the index
\* int(i/N*N) is computed in float64 and falls one short of i for some i
\* from N = 22 on, and frame i then has the state and the click flag of
\* sample i - 1.
C35_PerFrameSamplesAreKept ==
    (Count(events, "overlay") = 1 /\ Len(allCursors) = shots /\ shots >= 1) =>
        /\ interpolated = allCursors
        /\ Len(allFrames) = shots
        /\ \A n \in 1..shots :
               allFrames[n] = drawCursorOnFrame(Screenshot(n), allCursors[n])

----------------------------------------------------------------------------
(* the unset cursor in the compositor *)

\* the position is the (0,0) that stands for "not yet positioned"
Unset(pos) == pos.X = 0 /\ pos.Y = 0

\* C22: a frame whose interpolated cursor is (0,0) leaves ApplyCursor with
\* the pixels it came with: neither glyph nor ripple is drawn on it, whatever
\* the click flag of the sample.
C22_UnsetCursorDrawsNothing ==
    [][(pc = "overlay" /\ pc' = "gif" /\ Len(allCursors) # 0) =>
          /\ Len(interpolated') = Len(allFrames)
          /\ Len(allFrames') = Len(allFrames)
          /\ \A n \in 1..Len(allFrames) :
                 Unset(interpolated'[n]) => allFrames'[n] = allFrames[n]]_vars

\* C22 witness: ApplyCursor returned a frame with an unset cursor whose click
\* flag is set and nothing drawn on it, next to a frame with a glyph
C22_Witness ==
    /\ pc = "gif"
    /\ Len(interpolated) = Len(allFrames)
    /\ \E n \in 1..Len(interpolated) :
           /\ Unset(interpolated[n])
           /\ interpolated[n].Click
           /\ allFrames[n] = Screenshot(n)
    /\ \E n \in 1..Len(allFrames) : allFrames[n].Drawn # <<>>

----------------------------------------------------------------------------
(* gifgen.generatePalette on its own.  An image is its size and a rule     *)
(* giving the colour of every pixel (its bounds start at (0,0), as those   *)
(* of a decoded screenshot and of the frames ApplyCursor returns do).      *)

RGBA(r, g, b, a) == [R |-> r, G |-> g, B |-> b, A |-> a]

Image(w, h, pattern) == [W |-> w, H |-> h, Pattern |-> pattern]

\* img.At(x, y), reduced to 8 bits per channel as generatePalette reads it
At(img, x, y) ==
    CASE img.Pattern = "flat"    -> RGBA(255, 255, 255, 255)
      [] img.Pattern = "clear"   -> RGBA(0, 0, 0, 0)
      [] img.Pattern = "unique"  -> RGBA(x, y, 0, 255)
      [] img.Pattern = "halves"  -> IF y < img.H \div 2 THEN RGBA(200, 0, 0, 255)
                                                        ELSE RGBA(0, 0, 200, 255)
      [] img.Pattern = "stripes" -> RGBA(0, 40 * ((x \div 4) % 3), 0, 255)

\* step: every 4th pixel is sampled
step == 4

\* the sampled pixels in the order of the two loops, rows outside
Samples(img) ==
    LET nx == (img.W + step - 1) \div step
        ny == (img.H + step - 1) \div step
    IN  [k \in 1..(nx * ny) |-> At(img, step * ((k - 1) % nx), step * ((k - 1) \div nx))]

\* colorMap: the number of samples of every sampled colour
colorMap(img) ==
    LET samples == Samples(img)
        sampled == {samples[k] : k \in 1..Len(samples)}
    IN  [c \in sampled |-> Cardinality({k \in 1..Len(samples) : samples[k] = c})]

\* the distinct elements of s in the order of their first appearance
FirstSeen(s) ==
    LET firsts == SelectSeq([k \in 1..Len(s) |-> k],
                            LAMBDA k : \A l \in 1..(k - 1) : s[l] # s[k])
    IN  [j \in 1..Len(firsts) |-> s[firsts[j]]]

Reversed(s) == [k \in 1..Len(s) |-> s[Len(s) + 1 - k]]

\* for c, count := range colorMap: Go iterates a map in an order it does not
\* fix; two of the orders, the colours as first sampled and the reverse
IterationOrders(img) ==
    LET seen == FirstSeen(Samples(img))
    IN  {seen, Reversed(seen)}

\* the inner loop for one i (counted from 1):
\*   for j := i + 1; j < len(colors); j++ { if colors[j].count > colors[i].count { swap } }
\* colors[i] is swapped with every entry that exceeds all entries from i to
\* there, so it ends with the last of them and each of them with the one before
SortPass(cs, i) ==
    LET exceeds(k) == k > i /\ \A l \in i..(k - 1) : cs[l].count < cs[k].count
        swapped == {k \in (i + 1)..Len(cs) : exceeds(k)}
        before(k) == IF \E r \in swapped : r < k
                     THEN CHOOSE r \in swapped : r < k /\ \A q \in swapped : q < k => q <= r
                     ELSE i
    IN  IF swapped = {} THEN cs
        ELSE [k \in 1..Len(cs) |->
                 IF k = i THEN cs[CHOOSE r \in swapped : \A q \in swapped : q <= r]
                 ELSE IF k \in swapped THEN cs[before(k)]
                 ELSE cs[k]]

\* no entry from i on exceeds an entry before it: the loops swap nothing more
SortedFrom(cs, i) == \A k \in i..(Len(cs) - 1) : cs[k].count >= cs[k + 1].count

RECURSIVE SortByCount(_, _)
\* for i := 0; i < len(colors)-1; i++ { ... }: sorts by count, descending
SortByCount(cs, i) ==
    IF i >= Len(cs) \/ SortedFrom(cs, i) THEN cs
    ELSE SortByCount(SortPass(cs, i), i + 1)

\* the size of the palette
PaletteSize == 256

Transparent == RGBA(0, 0, 0, 0)

\* mutant: every sampled colour is appended, without the test of the length
generatePalette_NoLimit(img, order) ==
    LET counts == colorMap(img)
        colors == SortByCount([k \in 1..Len(order) |-> [c |-> order[k], count |-> counts[order[k]]]], 1)
        padding == IF Len(colors) + 1 < PaletteSize THEN PaletteSize - 1 - Len(colors) ELSE 0
    IN  <<Transparent>>
        \o [k \in 1..Len(colors) |-> colors[k].c]
        \o [k \in 1..padding |-> RGBA(Len(colors) + k, Len(colors) + k, Len(colors) + k, 255)]

\* generatePalette: the transparent colour, then the sampled colours by
\* falling count while the palette has fewer than 256 entries, then grays
\* uint8(len(palette)) up to 256 entries; order is the map iteration order
generatePalette(img, order) ==
    LET counts == colorMap(img)
        colors == SortByCount([k \in 1..Len(order) |-> [c |-> order[k], count |-> counts[order[k]]]], 1)
        kept == Min(Len(colors), PaletteSize - 1)
    IN  <<Transparent>>
        \o [k \in 1..kept |-> colors[k].c]
        \o [k \in 1..(PaletteSize - 1 - kept) |-> RGBA(kept + k, kept + k, kept + k, 255)]

\* first frames: empty in one or both directions, a single pixel, below and
\* at the sampling step, and with 256 and 272 sampled pixels
PaletteImages ==
    {Image(w, h, p) : w \in {0, 1, 5, 8, 64, 68}, h \in {0, 1, 8, 64},
                      p \in {"flat", "clear", "unique", "halves", "stripes"}}

\* generatePalette is about to be called on a first frame
PaletteInit ==
    /\ pc = "palette"
    /\ args \in PaletteImages
    /\ ret = <<>>
    /\ fps \in FPSValues
    /\ actions = <<>>
    /\ allFrames = <<>>
    /\ allCursors = <<>>
    /\ lastCursor = <<>>
    /\ pageOpen = TRUE
    /\ browserOpen = TRUE
    /\ shots = 0
    /\ RunIdle

\* the call returns its palette
CallGeneratePalette ==
    /\ pc = "palette"
    /\ \E order \in IterationOrders(args) : ret' = generatePalette(args, order)
    /\ pc' = "return"
    /\ UNCHANGED <<runVars, fps, args, batchVars, interpolated, shots, failedShots,
                   unresolved, events, attempts, batches>>

\* generatePalette is called once more on the same frame; ret keeps both
\* palettes
CallGeneratePaletteAgain ==
    /\ pc = "return"
    /\ \E order \in IterationOrders(args) :
           ret' = [first |-> ret, second |-> generatePalette(args, order)]
    /\ pc' = "again"
    /\ UNCHANGED <<runVars, fps, args, batchVars, interpolated, shots, failedShots,
                   unresolved, events, attempts, batches>>

PaletteNext == CallGeneratePalette \/ CallGeneratePaletteAgain

PaletteSpec == PaletteInit /\ [][PaletteNext]_vars

\* C23: the palette generatePalette returns for any first frame has at most
\* 256 entries, and its entry 0 is the fully transparent colour.
C23_PaletteWithinLimit ==
    (pc = "return" /\ args \in PaletteImages) =>
        /\ Len(ret) <= 256
        /\ ret[1] = RGBA(0, 0, 0, 0)

\* C23 witness: a palette was returned for a frame with more than 255
\* distinct sampled colours
C23_Witness ==
    /\ pc = "return"
    /\ args \in PaletteImages
    /\ Cardinality(DOMAIN colorMap(args)) > 255
    /\ Len(ret) = 256
    /\ ret[256].A = 255

\* C37: two calls of generatePalette on the same frame return the same
\* palette, entry by entry.  Violated: the colours are collected by ranging
\* over a map, whose order Go does not fix, and the sort leaves colours of
\* equal count in the order it met them, so their places in the palette,
\* and which of them are kept beyond 255, change from call to call.
C37_PaletteIsDeterministic ==
    pc = "again" => ret.first = ret.second

----------------------------------------------------------------------------
(* overlay.drawLine on its own, one loop iteration per step.  Go's int     *)
(* wraps around on overflow; the model keeps that with an int of IntBits   *)
(* bits instead of 64, so that the whole range can be walked.              *)

\* the width of int in the model
IntBits == 8

MaxInt == 2 ^ (IntBits - 1) - 1

MinInt == -(2 ^ (IntBits - 1))

\* the int that the bits of v stand for
Wrap(v) == ((v - MinInt) % (2 ^ IntBits)) + MinInt

\* abs: -x wraps for the most negative int
abs(x) == IF x < 0 THEN Wrap(-x) ELSE x

\* mutant: the line is walked to the right and downwards whatever the endpoints
Direction_AlwaysForward(from, to) == 1

\* sx and sy
Direction(from, to) == IF from > to THEN -1 ELSE 1

\* the locals of drawLine before its loop
LineStart(x1, y1, x2, y2) ==
    [x |-> x1, y |-> y1,
     err |-> Wrap(abs(Wrap(x2 - x1)) - abs(Wrap(y2 - y1)))]

\* the loop body after the pixel is set and the end test has failed
LineStep(st, x1, y1, x2, y2) ==
    LET dx == abs(Wrap(x2 - x1))
        dy == abs(Wrap(y2 - y1))
        e2 == Wrap(2 * st.err)
        stepX == e2 > Wrap(-dy)
        afterX == IF stepX THEN [st EXCEPT !.err = Wrap(st.err - dy),
                                           !.x = Wrap(st.x + Direction(x1, x2))]
                           ELSE st
    IN  IF e2 < dx THEN [afterX EXCEPT !.err = Wrap(afterX.err + dx),
                                       !.y = Wrap(afterX.y + Direction(y1, y2))]
                   ELSE afterX

\* if x1 == x2 && y1 == y2 { break }
LineEnds(st, x2, y2) == st.x = x2 /\ st.y = y2

\* endpoints: within MaxCoord of the origin in every direction, lines as long
\* as a third of the largest int, and lines from the most negative x to the
\* origin or to the most positive x
LineEndpoints ==
    [x1 : -MaxCoord..MaxCoord, y1 : -MaxCoord..MaxCoord,
     x2 : -MaxCoord..MaxCoord, y2 : -MaxCoord..MaxCoord]
    \cup [x1 : {0}, y1 : {0}, x2 : {-(MaxInt \div 3), MaxInt \div 3},
          y2 : {-(MaxInt \div 3), 0, 1, MaxInt \div 3}]
    \cup [x1 : {MinInt}, y1 : {0}, x2 : {0, MaxInt}, y2 : {0, 1}]

LineInit ==
    /\ pc = "line"
    /\ args \in LineEndpoints
    /\ ret = [st |-> LineStart(args.x1, args.y1, args.x2, args.y2),
              first |-> <<>>, last |-> <<>>]
    /\ fps \in FPSValues
    /\ actions = <<>>
    /\ allFrames = <<>>
    /\ allCursors = <<>>
    /\ lastCursor = <<>>
    /\ pageOpen = TRUE
    /\ browserOpen = TRUE
    /\ shots = 0
    /\ RunIdle

\* one iteration of the loop: setPixelSafe(img, x1, y1, c), then the end
\* test, then the step; ret keeps the first and the last pixel set
DrawLineStep ==
    /\ pc = "line"
    /\ LET pixel == <<ret.st.x, ret.st.y>>
           seen == [ret EXCEPT !.first = IF ret.first = <<>> THEN pixel ELSE ret.first,
                               !.last = pixel]
       IN  IF LineEnds(ret.st, args.x2, args.y2)
           THEN /\ pc' = "return"
                /\ ret' = seen
           ELSE /\ pc' = "line"
                /\ ret' = [seen EXCEPT !.st = LineStep(ret.st, args.x1, args.y1,
                                                        args.x2, args.y2)]
    /\ UNCHANGED <<runVars, fps, args, batchVars, interpolated, shots, failedShots,
                   unresolved, events, attempts, batches>>

LineNext == DrawLineStep

\* the loop goes on while it has not left through break
LineSpec == LineInit /\ [][LineNext]_vars /\ WF_vars(LineNext)

\* drawLine has returned
LineReturned == pc = "return"

\* the pixel set in this iteration is next to the one set before it
LineStepsByOne ==
    (pc = "line" /\ ret.last # <<>>) =>
        /\ ret'.last[1] - ret.last[1] \in {-1, 0, 1}
        /\ ret'.last[2] - ret.last[2] \in {-1, 0, 1}

\* the first pixel set is the start and, once returned, the last one the end
LineFromStartToEnd ==
    /\ ret.first # <<>> => ret.first = <<args.x1, args.y1>>
    /\ LineReturned => ret.last = <<args.x2, args.y2>>

\* the largest coordinate difference with which neither the differences nor
\* err nor 2 * err overflow: a third of the largest int
LineReach == MaxInt \div 3

LineInRange ==
    /\ args.x2 - args.x1 \in -LineReach..LineReach
    /\ args.y2 - args.y1 \in -LineReach..LineReach

----------------------------------------------------------------------------
(* The pixels of the overlay: drawClickRipple and drawCursor on a canvas   *)
(* with bounds (0,0)-(W,H), as the set of pixels img.Set is called with.   *)

\* (int(15*cos(a)), int(15*sin(a))) for the angles a = 0, 1, ..., 359 degrees
RippleOffsets ==
    { <<15, 0>>, <<14, 0>>, <<14, 1>>, <<14, 2>>, <<14, 3>>, <<14, 4>>,
      <<14, 5>>, <<13, 5>>, <<13, 6>>, <<13, 7>>, <<12, 7>>, <<12, 8>>,
      <<11, 9>>, <<11, 10>>, <<10, 10>>, <<10, 11>>, <<9, 11>>, <<8, 12>>,
      <<7, 12>>, <<7, 13>>, <<6, 13>>, <<5, 13>>, <<5, 14>>, <<4, 14>>,
      <<3, 14>>, <<2, 14>>, <<1, 14>>, <<0, 14>>, <<0, 15>>, <<-1, 14>>,
      <<-2, 14>>, <<-3, 14>>, <<-4, 14>>, <<-5, 14>>, <<-5, 13>>, <<-6, 13>>,
      <<-7, 13>>, <<-7, 12>>, <<-8, 12>>, <<-9, 11>>, <<-10, 11>>, <<-10, 10>>,
      <<-11, 10>>, <<-11, 9>>, <<-12, 8>>, <<-12, 7>>, <<-13, 7>>, <<-13, 6>>,
      <<-13, 5>>, <<-14, 5>>, <<-14, 4>>, <<-14, 3>>, <<-14, 2>>, <<-14, 1>>,
      <<-14, 0>>, <<-15, 0>>, <<-14, -1>>, <<-14, -2>>, <<-14, -3>>, <<-14, -4>>,
      <<-14, -5>>, <<-13, -5>>, <<-13, -6>>, <<-13, -7>>, <<-12, -7>>, <<-12, -8>>,
      <<-11, -9>>, <<-11, -10>>, <<-10, -10>>, <<-10, -11>>, <<-9, -11>>, <<-8, -12>>,
      <<-7, -12>>, <<-7, -13>>, <<-6, -13>>, <<-5, -13>>, <<-5, -14>>, <<-4, -14>>,
      <<-3, -14>>, <<-2, -14>>, <<-1, -14>>, <<0, -14>>, <<0, -15>>, <<1, -14>>,
      <<2, -14>>, <<3, -14>>, <<4, -14>>, <<5, -14>>, <<5, -13>>, <<6, -13>>,
      <<7, -13>>, <<7, -12>>, <<8, -12>>, <<9, -11>>, <<10, -11>>, <<10, -10>>,
      <<11, -10>>, <<11, -9>>, <<12, -8>>, <<12, -7>>, <<13, -7>>, <<13, -6>>,
      <<13, -5>>, <<14, -5>>, <<14, -4>>, <<14, -3>>, <<14, -2>>, <<14, -1>> }

\* drawClickRipple: the pixels it passes to setPixelSafe
RipplePixels(x, y) ==
    UNION {{<<x + o[1], y + o[2]>>, <<x + o[1] + 1, y + o[2]>>, <<x + o[1], y + o[2] + 1>>} :
           o \in RippleOffsets}

\* isInsideCursor
isInsideCursor(dx, dy) ==
    IF dy < 0 \/ dy > 16 THEN FALSE
    ELSE IF dx < 0 THEN FALSE
    ELSE IF dy <= 11 THEN dx <= (dy * 12) \div 16 /\ dx >= 0
    ELSE dy <= 16 /\ dx >= 0 /\ dx <= 4

\* cursorPoints
cursorPoints == << <<0, 0>>, <<0, 16>>, <<4, 12>>, <<7, 18>>, <<10, 17>>, <<7, 11>>, <<12, 11>> >>

RECURSIVE LineWalk(_, _, _, _, _)
\* drawLine: the pixels it passes to setPixelSafe from the loop state st on
LineWalk(st, x1, y1, x2, y2) ==
    {<<st.x, st.y>>}
    \cup (IF LineEnds(st, x2, y2) THEN {}
          ELSE LineWalk(LineStep(st, x1, y1, x2, y2), x1, y1, x2, y2))

drawLine(x1, y1, x2, y2) == LineWalk(LineStart(x1, y1, x2, y2), x1, y1, x2, y2)

\* drawCursor: the pixels of the fill, then those of the outline, a line from
\* every point of cursorPoints to the next and from the last to the first
CursorPixels(x, y) ==
    {<<x + dx, y + dy>> : <<dx, dy>> \in {q \in (0..12) \X (0..17) : isInsideCursor(q[1], q[2])}}
    \cup UNION {LET p1 == cursorPoints[i]
                    p2 == cursorPoints[(i % Len(cursorPoints)) + 1]
                IN  drawLine(x + p1[1], y + p1[2], x + p2[1], y + p2[2]) :
                i \in 1..Len(cursorPoints)}

\* the pixels drawCursorOnFrame asks for at pos: none for the unset
\* position, else the ripple on a click and the glyph
OverlayPixels(pos) ==
    IF pos.X = 0 /\ pos.Y = 0 THEN {}
    ELSE (IF pos.Click THEN RipplePixels(pos.X, pos.Y) ELSE {})
         \cup CursorPixels(pos.X, pos.Y)

\* image.Rect(0, 0, w, h)
Rect(w, h) == [MinX |-> 0, MinY |-> 0, MaxX |-> w, MaxY |-> h]

\* mutant: the test lets the row and the column at Max through
setPixelSafe_UpToMax(bounds, p) ==
    IF /\ p[1] >= bounds.MinX /\ p[1] <= bounds.MaxX
       /\ p[2] >= bounds.MinY /\ p[2] <= bounds.MaxY
    THEN {p} ELSE {}

\* setPixelSafe: the pixels img.Set is called with, p or none
setPixelSafe(bounds, p) ==
    IF /\ p[1] >= bounds.MinX /\ p[1] < bounds.MaxX
       /\ p[2] >= bounds.MinY /\ p[2] < bounds.MaxY
    THEN {p} ELSE {}

\* canvases: empty, one pixel, smaller and larger than glyph and ripple in
\* either direction
CanvasSizes == {0, 1, 4, 10, 31}

\* cursor positions: far outside, just outside, on every edge and inside
DrawCalls ==
    [bounds : {Rect(w, h) : w \in CanvasSizes, h \in CanvasSizes},
     pos : {CursorPosition(x, y, "pointer", click) :
               x \in {-16, -13, -1, 0, 1, 3, 9, 10, 15},
               y \in {-16, -1, 0, 1, 3, 9, 10, 13},
               click \in BOOLEAN}]

\* drawCursorOnFrame is about to draw on its copy of the frame
DrawInit ==
    /\ pc = "draw"
    /\ args \in DrawCalls
    /\ ret = {}
    /\ fps \in FPSValues
    /\ actions = <<>>
    /\ allFrames = <<>>
    /\ allCursors = <<>>
    /\ lastCursor = <<>>
    /\ pageOpen = TRUE
    /\ browserOpen = TRUE
    /\ shots = 0
    /\ RunIdle

\* the ripple and the glyph are drawn: ret is the set of pixels written
DrawOverlay ==
    /\ pc = "draw"
    /\ ret' = UNION {setPixelSafe(args.bounds, p) : p \in OverlayPixels(args.pos)}
    /\ pc' = "return"
    /\ UNCHANGED <<runVars, fps, args, batchVars, interpolated, shots, failedShots,
                   unresolved, events, attempts, batches>>

DrawNext == DrawOverlay

DrawSpec == DrawInit /\ [][DrawNext]_vars

\* the pixel lies on the canvas
OnCanvas(bounds, p) ==
    /\ bounds.MinX <= p[1] /\ p[1] < bounds.MaxX
    /\ bounds.MinY <= p[2] /\ p[2] < bounds.MaxY

\* C29: whatever the size of the canvas and the position of the cursor, when
\* the ripple and the glyph have been drawn every pixel written lies within
\* the bounds of the frame, and the pixels of the two shapes that lie within
\* the bounds are all written: only those outside are dropped.
C29_WritesStayOnCanvas ==
    pc = "return" =>
        /\ \A p \in ret : OnCanvas(args.bounds, p)
        /\ \A p \in OverlayPixels(args.pos) : OnCanvas(args.bounds, p) => p \in ret

\* C29 witness: a clicking cursor on the right edge of a canvas: part of the
\* ripple and of the glyph is written, part of both is dropped
C29_Witness ==
    /\ pc = "return"
    /\ args.pos.Click
    /\ args.pos.X = args.bounds.MaxX - 1
    /\ args.bounds.MaxY > 1
    /\ ret # {}
    /\ \E p \in CursorPixels(args.pos.X, args.pos.Y) : p \in ret
    /\ \E p \in CursorPixels(args.pos.X, args.pos.Y) : p \notin ret
    /\ \E p \in RipplePixels(args.pos.X, args.pos.Y) : p \notin ret

====
